---- MODULE Spec2Model ----
(***************************************************************************)
(* meltfm: the never-stopping radio.                                       *)
(*                                                                         *)
(* SpecAudio  the client's AudioManager (web/src/lib/audio.ts): one active *)
(*            audio element, the fallback list, pending play() promises    *)
(*            and running crossfades.                                      *)
(* SpecGen    ParameterGenerator.generate (spec section 4.2): the bounded  *)
(*            retries and the deterministic fallback.                      *)
(* Spec       the RadioEngine pipeline and the SyncChannel (spec sections  *)
(*            4.1, 4.4, 4.5), the RadioSocket (web/src/lib/ws.ts) and the  *)
(*            useRadio hook (web/src/hooks/useRadio.ts) that mirrors the   *)
(*            engine's events into RadioState and drives the AudioManager; *)
(*            one station, with channel drops and pipeline failures.       *)
(* SpecStation  the same engine and client over two stations: notes, taste *)
(*            reactions, clean_radio, switch_radio and create_radio.       *)
(* SpecFallback the AudioManager started with a fallback list at its cap.  *)
(* SpecDisplay  the useRadio hook alone, fed every event type a server may *)
(*            send.                                                        *)
(* SpecClient   the useRadio hook driving the AudioManager on the playback *)
(*            events.                                                      *)
(* SpecInput    the pipeline, the channel and the ReactionInput box.       *)
(* SpecFailure  asset failures with a listener who issues no command.      *)
(* SpecAbandon  steering texts and station switches that abandon jobs.     *)
(* SpecRecover  pipeline failures and recovery under weak fairness, with a *)
(*            listener who issues no command.                              *)
(* SpecAdvance  the queued track reaching the listener under weak          *)
(*            fairness, with a channel that drops.                         *)
(* SpecEnded    the AudioManager under any caller with the hook's onEnded  *)
(*            callback.                                                    *)
(* SpecVolume   the AudioManager with a caller that changes the volume.    *)
(* SpecSocket   the RadioSocket through failed and successful connects.    *)
(* SpecShutdown the RadioSocket with a hook that may be unmounted (close). *)
(* SpecReconnect the RadioSocket under weak fairness of its timer and of   *)
(*            the connect.                                                 *)
(* SpecOffline  the listener's controls over a channel that drops.         *)
(***************************************************************************)
EXTENDS Integers, Sequences, FiniteSets, TLC

\* ------------------------------------------------------------------------
\* Values and bounds
\* ------------------------------------------------------------------------

NoUrl == "none"

\* Asset references handed to the AudioManager.
Urls == {"a", "b"}

\* audio.ts: if (this.fallbackQueue.length > 10) this.fallbackQueue.shift()
FallbackMax == 10

\* Bound on the playTrack / crossfadeTo / setNextTrack calls of one run.
MaxCalls == 3

\* Bound on the crossfades running at the same time.
MaxXf == 1

\* Service-accepted tempo bounds (spec section 3).
TempoMin == 1

TempoMax == 2

\* Retries after the first inference call (spec section 4.2: "e.g. 2 retries").
MaxRetries == 2

MaxAttempts == 1 + MaxRetries

\* Bound on the generation jobs (and so the tracks) of one run.
MaxId == 3

\* Bound on the events in flight to the client.
MaxQueue == 3

\* Bound on the commands in flight to the engine.
MaxCmds == 1

\* Bound on the jobs of a run over two stations (SpecStation).
StationJobs == 2

\* Bound on the notes of one station.
MaxNotes == 1

\* Bound on the channel drops of one run.
MaxDrops == 1

\* Bound on the onError timers pending at once.
MaxTimers == 1

VARIABLES
    audio,          \* this.audio: [src, st], st in empty/loading/playing/paused/failed
    fallbackQueue,  \* this.fallbackQueue
    nextTrackUrl,   \* this.nextTrackUrl
    pend,           \* playTrack calls awaiting this.audio.play(): <<[url, st, hard]>>,
                    \* hard: the call is crossfadeTo's hard switch
    xf,             \* running crossfadeTo calls: <<[url, phase, st]>>
    okUrls,         \* the assets whose playback has started at least once
    badUrls,        \* the assets that failed to load or play at least once
    userPaused,     \* pause() was the last transport call
    ncalls,         \* playTrack / crossfadeTo calls so far
    _volume,        \* this._volume, in hundredths
    elVolume,       \* this.audio.volume, in hundredths
    baseVols        \* per running crossfadeTo: its baseVol once the ramp runs

audioVars == <<audio, fallbackQueue, nextTrackUrl, pend, xf, okUrls, badUrls, userPaused,
              ncalls, _volume, elVolume, baseVols>>

VARIABLES
    genLast,        \* the station's most recent successfully used parameters
    genOut,         \* what the inference service returns on each call
    genRes          \* generate()'s result: [done, params, warnings]

genVars == <<genLast, genOut, genRes>>

VARIABLES
    active,         \* the engine's active station
    stations,       \* the stations that exist
    jobsOf,         \* per station: its GenerationJobs, <<[id, stage, steer, params, warnings,
                    \* malformed]>>
    nextId,         \* the next job / track identifier
    jobLimit,       \* the bound on the jobs of the run: MaxId or StationJobs
    nowPlaying,     \* the active station's current track (NoTrack: none)
    wantNext,       \* the current track ended or was skipped; the next one plays on completion
    pendingSteer,   \* steering text kept for the next prompt
    notes,          \* per station: TasteProfile notes
    taste,          \* per station: the TasteProfile holds reaction records
    lastParams,     \* per station: the most recent successfully used parameters
    abandoned,      \* the jobs abandoned so far (their tracks are discarded)
    inflight        \* abandoned jobs whose synthesis is still running

engVars == <<active, stations, jobsOf, nextId, jobLimit, nowPlaying, wantNext, pendingSteer, notes,
            taste, lastParams, abandoned, inflight>>

VARIABLES
    toClient,       \* events in flight, engine to client
    toServer,       \* commands in flight, client to engine
    ws,             \* RadioSocket: "connecting", "open", "retry" (reconnect timer pending),
                    \* "closing" (close() called, close event to come) or "closed"
    reconnectDelay, \* RadioSocket.reconnectDelay
    timer,          \* the delay of the pending reconnect timer, NoTimer if none
    closed,         \* RadioSocket.closed
    drops           \* channel drops so far

chanVars == <<toClient, toServer, ws, reconnectDelay, timer, closed, drops>>

VARIABLES
    state,                   \* RadioState
    started,                 \* started.current
    nowPlayingRef,           \* nowPlayingRef.current
    serverElapsedRef,        \* serverElapsedRef.current
    nowPlayingAfterGenStart, \* nowPlayingAfterGenStart.current
    played,                  \* the track last handed to the AudioManager (playTrack, crossfadeTo)
    seekTo,                  \* the position handed with it (0 when the call names none)
    inputText,               \* ReactionInput: the text in the input box
    skipTimers               \* the pending 3000 ms timers set by onError

hookVars == <<state, started, nowPlayingRef, serverElapsedRef, nowPlayingAfterGenStart,
              played, seekTo, inputText, skipTimers>>

radioVars == <<engVars, chanVars, hookVars>>

vars == <<audioVars, genVars, radioVars>>

\* ------------------------------------------------------------------------
\* AudioManager (web/src/lib/audio.ts)
\* ------------------------------------------------------------------------

\* private _volume = 0.8
DefaultVolume == 80

\* The volume of a new Audio() element.
ElementVolume == 100

\* The volume of the element playFallback() leaves active: it sets the volume
\* only when it has an entry to play.
FallbackVolume(fq, el, v) == IF fq = <<>> THEN el ELSE v

Last(q) == q[Len(q)]

Front(q) == SubSeq(q, 1, Len(q) - 1)

RemoveAt(q, i) == SubSeq(q, 1, i - 1) \o SubSeq(q, i + 1, Len(q))

\* A list that drops its newest old entry, not its oldest, when it is full.
EvictNewest(q, url) == IF Len(q) >= FallbackMax THEN Append(Front(q), url) ELSE Append(q, url)

\* fallbackQueue.push(url); if (length > 10) shift()
PushFallback(q, url) ==
    LET q2 == Append(q, url)
    IN  IF Len(q2) > FallbackMax THEN Tail(q2) ELSE q2

\* A new load or a pause() on the element rejects its pending play() promises.
RejectAll(p) == [i \in 1..Len(p) |-> [p[i] EXCEPT !.st = "rejected"]]

\* The catch handlers of rejected promises run before the next task.
NoMicrotasks == \A i \in 1..Len(pend) : pend[i].st # "rejected"

\* The synchronous part of playTrack(url): src, volume, play() is called.
PlayTrackCall(a, fq, p, url) ==
    [audio |-> [src |-> url, st |-> "loading"],
     fallbackQueue |-> fq,
     pend |-> Append(RejectAll(p), [url |-> url, st |-> "wait", hard |-> FALSE])]

\* playFallback(): pop the most recent fallback and play it; nothing if none.
PlayFallback(a, fq, p) ==
    IF fq = <<>>
    THEN [audio |-> a, fallbackQueue |-> fq, pend |-> p]
    ELSE [audio |-> [src |-> Last(fq), st |-> "loading"],
          fallbackQueue |-> Front(fq),
          pend |-> RejectAll(p)]

AudioStart ==
    /\ audio = [src |-> NoUrl, st |-> "empty"]
    /\ fallbackQueue = <<>>
    /\ nextTrackUrl = NoUrl
    /\ pend = <<>>
    /\ xf = <<>>
    /\ okUrls = {}
    /\ badUrls = {}
    /\ userPaused = FALSE
    /\ ncalls = 0
    /\ _volume = DefaultVolume
    /\ elVolume = ElementVolume
    /\ baseVols = <<>>

\* playTrack(url) is called.
PlayTrack(url) ==
    /\ NoMicrotasks
    /\ ncalls < MaxCalls
    /\ LET r == PlayTrackCall(audio, fallbackQueue, pend, url)
       IN  /\ audio' = r.audio
           /\ fallbackQueue' = r.fallbackQueue
           /\ pend' = r.pend
    /\ ncalls' = ncalls + 1
    /\ userPaused' = FALSE
    /\ elVolume' = _volume
    /\ UNCHANGED <<nextTrackUrl, xf, okUrls, badUrls, _volume, baseVols>>

RECURSIVE PushWaiting(_, _)
\* Each playTrack whose play() resolved pushes its url, in call order.
PushWaiting(fq, p) ==
    IF p = <<>> THEN fq
    ELSE PushWaiting(IF Head(p).st = "wait" THEN PushFallback(fq, Head(p).url) ELSE fq,
                     Tail(p))

\* this.audio.play() resolves: playback of audio.src has begun.
PlayResolved ==
    /\ NoMicrotasks
    /\ audio.st = "loading"
    /\ audio' = [audio EXCEPT !.st = "playing"]
    /\ fallbackQueue' = PushWaiting(fallbackQueue, pend)
    /\ pend' = <<>>
    /\ okUrls' = okUrls \cup {audio.src}
    /\ UNCHANGED <<nextTrackUrl, xf, badUrls, userPaused, ncalls, _volume, elVolume, baseVols>>

\* this.audio.play() rejects without an error event (playback not allowed).
PlayRejected ==
    /\ NoMicrotasks
    /\ audio.st = "loading"
    /\ audio' = [audio EXCEPT !.st = "failed"]
    /\ pend' = RejectAll(pend)
    /\ badUrls' = badUrls \cup {audio.src}
    /\ UNCHANGED <<fallbackQueue, nextTrackUrl, xf, okUrls, userPaused, ncalls, _volume, elVolume, baseVols>>

\* The element fires 'error': onError, then playFallback().
ErrorEvent ==
    /\ NoMicrotasks
    /\ audio.st \in {"loading", "playing"}
    /\ LET r == PlayFallback([audio EXCEPT !.st = "failed"], fallbackQueue, RejectAll(pend))
       IN  /\ audio' = r.audio
           /\ fallbackQueue' = r.fallbackQueue
           /\ pend' = r.pend
    /\ badUrls' = badUrls \cup {audio.src}
    /\ elVolume' = FallbackVolume(fallbackQueue, elVolume, _volume)
    /\ UNCHANGED <<nextTrackUrl, xf, okUrls, userPaused, ncalls, _volume, baseVols>>

\* playTrack's catch block after a rejected play(): playFallback().
PlayTrackCatch ==
    /\ ~NoMicrotasks
    /\ LET i == CHOOSE k \in 1..Len(pend) :
                    /\ pend[k].st = "rejected"
                    /\ \A j \in 1..(k - 1) : pend[j].st # "rejected"
           r == PlayFallback(audio, fallbackQueue, RemoveAt(pend, i))
       IN  /\ audio' = r.audio
           /\ fallbackQueue' = r.fallbackQueue
           /\ pend' = r.pend
    /\ elVolume' = FallbackVolume(fallbackQueue, elVolume, _volume)
    /\ UNCHANGED <<nextTrackUrl, xf, okUrls, badUrls, userPaused, ncalls, _volume, baseVols>>

\* An end that leaves the element stopped.
EndedStops ==
    /\ NoMicrotasks
    /\ audio.st = "playing"
    /\ audio' = [audio EXCEPT !.st = "paused"]
    /\ UNCHANGED <<fallbackQueue, nextTrackUrl, pend, xf, okUrls, badUrls, userPaused, ncalls, _volume, elVolume, baseVols>>

\* The element fires 'ended': play nextTrackUrl once, or loop the current track.
Ended ==
    /\ NoMicrotasks
    /\ audio.st = "playing"
    /\ IF nextTrackUrl # NoUrl
       THEN LET r == PlayTrackCall(audio, fallbackQueue, pend, nextTrackUrl)
            IN  /\ audio' = r.audio
                /\ fallbackQueue' = r.fallbackQueue
                /\ pend' = r.pend
       ELSE /\ audio' = [audio EXCEPT !.st = "loading"]
            /\ UNCHANGED <<fallbackQueue, pend>>
    /\ nextTrackUrl' = NoUrl
    /\ elVolume' = IF nextTrackUrl # NoUrl THEN _volume ELSE elVolume
    /\ UNCHANGED <<xf, okUrls, badUrls, userPaused, ncalls, _volume, baseVols>>

\* setNextTrack(url)
SetNextTrack(url) ==
    /\ NoMicrotasks
    /\ ncalls < MaxCalls
    /\ nextTrackUrl' = url
    /\ ncalls' = ncalls + 1
    /\ UNCHANGED <<audio, fallbackQueue, pend, xf, okUrls, badUrls, userPaused, _volume, elVolume, baseVols>>

\* pause()
Pause ==
    /\ NoMicrotasks
    /\ audio.st \in {"loading", "playing"}
    /\ audio' = [audio EXCEPT !.st = "paused"]
    /\ pend' = RejectAll(pend)
    /\ userPaused' = TRUE
    /\ UNCHANGED <<fallbackQueue, nextTrackUrl, xf, okUrls, badUrls, ncalls, _volume, elVolume, baseVols>>

\* resume()
Resume ==
    /\ NoMicrotasks
    /\ audio.st = "paused"
    /\ audio' = [audio EXCEPT !.st = "loading"]
    /\ userPaused' = FALSE
    /\ UNCHANGED <<fallbackQueue, nextTrackUrl, pend, xf, okUrls, badUrls, ncalls, _volume, elVolume, baseVols>>

\* baseVol before crossfadeTo has read this._volume.
NoBase == -1

\* crossfadeTo(nextUrl) is called: next = new Audio(nextUrl); next.play().
CrossfadeTo(url) ==
    /\ NoMicrotasks
    /\ ncalls < MaxCalls
    /\ Len(xf) < MaxXf
    /\ audio.src # NoUrl
    /\ audio.st # "paused"
    /\ xf' = Append(xf, [url |-> url, phase |-> "starting", st |-> "loading"])
    /\ ncalls' = ncalls + 1
    /\ baseVols' = Append(baseVols, NoBase)
    /\ UNCHANGED <<audio, fallbackQueue, nextTrackUrl, pend, okUrls, badUrls, userPaused,
                   _volume, elVolume>>

\* next.play() resolves: baseVol = this._volume and the volume ramp runs. The
\* ramp's writes to the outgoing element are not kept: the element is dropped
\* when the ramp ends.
CrossfadeStarted(i) ==
    /\ NoMicrotasks
    /\ xf[i].phase = "starting"
    /\ xf' = [xf EXCEPT ![i] = [@ EXCEPT !.phase = "fading", !.st = "playing"]]
    /\ okUrls' = okUrls \cup {xf[i].url}
    /\ baseVols' = [baseVols EXCEPT ![i] = _volume]
    /\ UNCHANGED <<audio, fallbackQueue, nextTrackUrl, pend, badUrls, userPaused, ncalls,
                   _volume, elVolume>>

\* next.play() rejects: hard switch, await this.playTrack(nextUrl); return.
CrossfadeFailed(i) ==
    /\ NoMicrotasks
    /\ xf[i].phase = "starting"
    /\ LET r == PlayTrackCall(audio, fallbackQueue, pend, xf[i].url)
       IN  /\ audio' = r.audio
           /\ fallbackQueue' = r.fallbackQueue
           /\ pend' = [r.pend EXCEPT ![Len(r.pend)].hard = TRUE]
    /\ xf' = RemoveAt(xf, i)
    /\ badUrls' = badUrls \cup {xf[i].url}
    /\ elVolume' = _volume
    /\ baseVols' = RemoveAt(baseVols, i)
    /\ UNCHANGED <<nextTrackUrl, okUrls, userPaused, ncalls, _volume>>

\* The incoming element fails during the ramp: it has no listeners yet.
CrossfadeNextError(i) ==
    /\ NoMicrotasks
    /\ xf[i].phase = "fading"
    /\ xf[i].st = "playing"
    /\ xf' = [xf EXCEPT ![i] = [@ EXCEPT !.st = "failed"]]
    /\ badUrls' = badUrls \cup {xf[i].url}
    /\ UNCHANGED <<audio, fallbackQueue, nextTrackUrl, pend, okUrls, userPaused, ncalls, _volume, elVolume, baseVols>>

\* The ramp is over, next.volume is baseVol: pause the old element,
\* this.audio = next, push nextUrl.
CrossfadeDone(i) ==
    /\ NoMicrotasks
    /\ xf[i].phase = "fading"
    /\ audio' = [src |-> xf[i].url, st |-> xf[i].st]
    /\ pend' = RejectAll(pend)
    /\ fallbackQueue' = PushFallback(fallbackQueue, xf[i].url)
    /\ xf' = RemoveAt(xf, i)
    /\ elVolume' = baseVols[i]
    /\ baseVols' = RemoveAt(baseVols, i)
    /\ UNCHANGED <<nextTrackUrl, okUrls, badUrls, userPaused, ncalls, _volume>>

\* The volumes a caller sets, in hundredths.
Volumes == {30, 80, 100}

\* set volume(v): this._volume = v; this.audio.volume = v
SetVolume(v) ==
    /\ NoMicrotasks
    /\ _volume # v
    /\ _volume' = v
    /\ elVolume' = v
    /\ UNCHANGED <<audio, fallbackQueue, nextTrackUrl, pend, xf, okUrls, badUrls, userPaused,
                   ncalls, baseVols>>

AudioNext ==
    \/ \E url \in Urls : PlayTrack(url)
    \/ PlayResolved
    \/ PlayRejected
    \/ ErrorEvent
    \/ PlayTrackCatch
    \/ Ended
    \/ \E url \in Urls : SetNextTrack(url)
    \/ Pause
    \/ Resume
    \/ \E url \in Urls : CrossfadeTo(url)
    \/ \E i \in 1..Len(xf) : CrossfadeStarted(i)
    \/ \E i \in 1..Len(xf) : CrossfadeFailed(i)
    \/ \E i \in 1..Len(xf) : CrossfadeNextError(i)
    \/ \E i \in 1..Len(xf) : CrossfadeDone(i)

\* ------------------------------------------------------------------------
\* ParameterGenerator (spec section 4.2; its code is not among the sources)
\* ------------------------------------------------------------------------

\* GenerationParams: tags (their number), tempo, instrumental, lyrics present.
DefaultParams ==
    [tags |-> 1, tempo |-> TempoMin, instrumental |-> TRUE, lyrics |-> FALSE,
     rationale |-> "default"]

\* Schema of section 3: tempo in bounds, tags non-empty, lyrics absent iff
\* instrumental.
SchemaOk(p) ==
    /\ p.tags > 0
    /\ TempoMin <= p.tempo /\ p.tempo <= TempoMax
    /\ p.lyrics = ~p.instrumental

\* A response is usable when it parses and satisfies the schema.
ResponseOk(r) == r.parsed /\ SchemaOk(r.p)

\* What was invalid, for the corrective instruction and the warning.
Problem(r) ==
    IF ~r.parsed THEN "parse"
    ELSE IF r.p.tags = 0 THEN "tags"
    ELSE IF r.p.tempo < TempoMin \/ r.p.tempo > TempoMax THEN "tempo"
    ELSE "lyrics"

\* A fallback that ignores the station: the hardcoded global set.
FallbackHardcoded(last) == DefaultParams

\* The deterministic fallback: the station's most recent successfully used
\* parameters; a fresh station has none and gets the built-in set.
Fallback(last) ==
    IF last.has THEN [last.p EXCEPT !.rationale = "fallback"] ELSE DefaultParams

RECURSIVE Attempt(_, _, _, _)
\* Call i of at most MaxAttempts; warns are the warnings of the failed calls.
Attempt(last, out, i, warns) ==
    IF i > MaxAttempts
    THEN [done |-> TRUE, params |-> Fallback(last), warnings |-> warns]
    ELSE IF ResponseOk(out[i])
         THEN [done |-> TRUE, params |-> out[i].p, warnings |-> warns]
         ELSE Attempt(last, out, i + 1, Append(warns, Problem(out[i])))

\* generate(station, steeringText): {value, warnings}.
Generate(last, out) == Attempt(last, out, 1, <<>>)

\* The responses the service may give.
GenTempos == {TempoMin - 1, TempoMin, TempoMax, TempoMax + 1}

GenParams ==
    [tags : {0, 1}, tempo : GenTempos, instrumental : BOOLEAN, lyrics : BOOLEAN,
     rationale : {"llm"}]

Garbage == [parsed |-> FALSE, p |-> DefaultParams]

GenResponses == {Garbage} \cup {[parsed |-> TRUE, p |-> q] : q \in GenParams}

NoLast == [has |-> FALSE, p |-> DefaultParams]

GenLasts == {NoLast} \cup {[has |-> TRUE, p |-> q] : q \in {x \in GenParams : SchemaOk(x)}}

GenIdle == [done |-> FALSE, params |-> DefaultParams, warnings |-> <<>>]

GenStart ==
    /\ genLast = NoLast
    /\ genOut = [i \in 1..MaxAttempts |-> Garbage]
    /\ genRes = GenIdle

\* ------------------------------------------------------------------------
\* RadioEngine and SyncChannel (spec sections 4.1, 4.4, 4.5; their code is
\* not among the sources)
\* ------------------------------------------------------------------------

StationNames == {"default", "alt"}

NoTrack == 0

\* Free text: a steering instruction, an explicit permanent note, a keyword.
SteerTexts == {"more melancholic"}

NoteTexts == {"note: no vocals"}

Texts == SteerTexts \cup NoteTexts \cup {"skip"}

\* ReactionInterpreter: the taste signal and the kind of instruction of a text.
Interpret(text) ==
    IF text = "skip" THEN [signal |-> "skipped", kind |-> "none"]
    ELSE IF text \in NoteTexts THEN [signal |-> "none", kind |-> "note"]
    ELSE [signal |-> "none", kind |-> "steer"]

Some(p) == [has |-> TRUE, p |-> p]

\* An event that carries no volume.
NoVolume == -1

\* Server-to-client events; the fields an event does not carry stay at rest.
Msg(type) ==
    [type |-> type, track |-> NoTrack, params |-> NoLast, warnings |-> <<>>,
     text |-> "", flag |-> FALSE, elapsed |-> 0, volume |-> NoVolume]

NowPlayingMsg(t) == [Msg("now_playing") EXCEPT !.track = t]

GenerationStartMsg(job) ==
    [Msg("generation_start") EXCEPT !.params = job.params, !.warnings = job.warnings]

RegeneratingMsg(reason) == [Msg("regenerating") EXCEPT !.text = reason]

RadioSwitchedMsg(name, isNew) ==
    [Msg("radio_switched") EXCEPT !.text = name, !.flag = isNew]

ReactionFeedbackMsg(signal) == [Msg("reaction_feedback") EXCEPT !.text = signal]

ErrorMsg == [Msg("error") EXCEPT !.text = "generation failed"]

WaitingMsg == [Msg("waiting") EXCEPT !.text = "warming up"]

\* Client-to-server commands.
Cmd(type, text) == [type |-> type, text |-> text]

Stage(s) == IF jobsOf[s] = <<>> THEN "idle" ELSE jobsOf[s][1].stage

Job(s) == jobsOf[s][1]

NewJob(id, stage, steer) ==
    [id |-> id, stage |-> stage, steer |-> steer, params |-> NoLast, warnings |-> <<>>,
     malformed |-> 0]

\* The station's jobs once a track has started: the cycle for the next one.
NextCycle(steer) == <<NewJob(nextId, "thinking", steer)>>

\* The track that is playing already, taken for the queued one.
CurrentTrack(s) == nowPlaying

\* The track queued by the station's ready job.
QueuedTrack(s) == jobsOf[s][1].id

\* The malformed responses before the first valid one.
Malformed(out) == Cardinality({i \in 1..MaxAttempts : \A j \in 1..i : ~ResponseOk(out[j])})

\* clean_radio that clears the whole TasteProfile.
WipeProfile(profile) == [taste |-> FALSE, notes |-> <<>>]

\* clean_radio clears the reaction records of the TasteProfile.
CleanProfile(profile) == [profile EXCEPT !.taste = FALSE]

\* A trigger that spawns a job whatever the station already has.
StartJobAlways(jobs, job) == Append(jobs, job)

\* A trigger creates the job only when the station has none; otherwise it is
\* coalesced into the existing one.
StartJob(jobs, job) == IF jobs = <<>> THEN <<job>> ELSE jobs

\* The full-state snapshot sent on connect.
SyncMsg ==
    [Msg("sync") EXCEPT !.track = nowPlaying, !.text = active,
                        !.flag = Stage(active) \in {"waiting", "thinking", "generating"}]

\* Broadcasting is fire-and-forget: events are not queued for offline clients.
Emit(evs) == IF ws = "open" THEN toClient \o evs ELSE toClient

\* Room for n more events in flight.
Room(n) == ws = "open" => Len(toClient) + n <= MaxQueue

\* The responses the inference service gives to the engine's calls.
GoodResponse ==
    [parsed |-> TRUE,
     p |-> [tags |-> 1, tempo |-> TempoMax, instrumental |-> FALSE, lyrics |-> TRUE,
            rationale |-> "llm"]]

\* k malformed responses, then a valid one, k within the retry bound.
EngineOutputs ==
    {[i \in 1..MaxAttempts |-> IF i <= k THEN Garbage ELSE GoodResponse] : k \in 0..MaxRetries}

\* Trigger (a)/(b): first run, or the lead time of the current track reached.
Trigger(stages) ==
    /\ nextId <= jobLimit
    /\ \E st \in stages :
        LET s == active
            jobs == StartJob(jobsOf[s], NewJob(nextId, st, pendingSteer))
            created == jobs # jobsOf[s]
        IN  /\ created
            /\ Room(1)
            /\ jobsOf' = [jobsOf EXCEPT ![s] = jobs]
            /\ nextId' = nextId + 1
            /\ pendingSteer' = {}
            /\ toClient' = Emit(<<IF st = "waiting" THEN WaitingMsg ELSE Msg("thinking")>>)
    /\ UNCHANGED <<jobLimit, active, stations, nowPlaying, wantNext, notes, taste, lastParams,
                   abandoned, inflight, toServer, ws, reconnectDelay, timer, closed, drops, hookVars,
                   audioVars, genVars>>

\* waiting -> thinking: the synthesis backend answered a readiness check.
BackendReady ==
    /\ Stage(active) = "waiting"
    /\ Room(1)
    /\ jobsOf' = [jobsOf EXCEPT ![active][1].stage = "thinking"]
    /\ toClient' = Emit(<<Msg("thinking")>>)
    /\ UNCHANGED <<jobLimit, active, stations, nextId, nowPlaying, wantNext, pendingSteer, notes,
                   taste, lastParams, abandoned, inflight, toServer, ws, reconnectDelay, timer, closed,
                   drops, hookVars, audioVars, genVars>>

\* thinking -> generating: generate() returned {value, warnings}; the job is
\* submitted to the TrackSynthesizer.
ThinkDone(outs) ==
    /\ Stage(active) = "thinking"
    /\ Room(1)
    /\ \E out \in outs :
        LET r == Generate(lastParams[active], out)
            job == [Job(active) EXCEPT !.stage = "generating", !.params = Some(r.params),
                                       !.warnings = r.warnings,
                                       !.malformed = Malformed(out)]
        IN  /\ jobsOf' = [jobsOf EXCEPT ![active][1] = job]
            /\ toClient' = Emit(<<GenerationStartMsg(job)>>)
    /\ UNCHANGED <<jobLimit, active, stations, nextId, nowPlaying, wantNext, pendingSteer, notes,
                   taste, lastParams, abandoned, inflight, toServer, ws, reconnectDelay, timer, closed,
                   drops, hookVars, audioVars, genVars>>

\* generating -> ready, or straight to now-playing when nothing is playing or
\* the current track has already ended or been skipped; then the next cycle
\* starts at once.
SynthDone ==
    LET s == active
        job == Job(s)
    IN  /\ Stage(s) = "generating"
        /\ lastParams' = [lastParams EXCEPT ![s] = job.params]
        /\ IF nowPlaying = NoTrack \/ wantNext
           THEN /\ nextId <= jobLimit
                /\ Room(3)
                /\ nowPlaying' = job.id
                /\ wantNext' = FALSE
                /\ jobsOf' = [jobsOf EXCEPT ![s] = NextCycle(pendingSteer)]
                /\ pendingSteer' = {}
                /\ nextId' = nextId + 1
                /\ toClient' = Emit(<<NowPlayingMsg(job.id), Msg("generation_done"),
                                      Msg("thinking")>>)
           ELSE /\ Room(1)
                /\ jobsOf' = [jobsOf EXCEPT ![s][1].stage = "ready"]
                /\ toClient' = Emit(<<Msg("generation_done")>>)
                /\ UNCHANGED <<nowPlaying, wantNext, pendingSteer, nextId>>
        /\ UNCHANGED <<jobLimit, active, stations, notes, taste, abandoned, inflight, toServer, ws,
                       reconnectDelay, timer, closed, drops, hookVars, audioVars, genVars>>

\* waiting | thinking | generating -> error.
Fail ==
    /\ Stage(active) \in {"waiting", "thinking", "generating"}
    /\ Room(1)
    /\ jobsOf' = [jobsOf EXCEPT ![active][1].stage = "error"]
    /\ toClient' = Emit(<<ErrorMsg>>)
    /\ UNCHANGED <<jobLimit, active, stations, nextId, nowPlaying, wantNext, pendingSteer, notes,
                   taste, lastParams, abandoned, inflight, toServer, ws, reconnectDelay, timer, closed,
                   drops, hookVars, audioVars, genVars>>

\* An engine that gives the failed job up instead of re-attempting it.
GiveUp ==
    /\ Stage(active) = "error"
    /\ jobsOf' = [jobsOf EXCEPT ![active] = <<>>]
    /\ UNCHANGED <<jobLimit, active, stations, nextId, nowPlaying, wantNext, pendingSteer, notes,
                   taste, lastParams, abandoned, inflight, chanVars, hookVars, audioVars,
                   genVars>>

\* error -> thinking: the engine re-attempts on its own.
Recover ==
    /\ Stage(active) = "error"
    /\ Room(1)
    /\ jobsOf' = [jobsOf EXCEPT ![active][1].stage = "thinking"]
    /\ toClient' = Emit(<<Msg("thinking")>>)
    /\ UNCHANGED <<jobLimit, active, stations, nextId, nowPlaying, wantNext, pendingSteer, notes,
                   taste, lastParams, abandoned, inflight, toServer, ws, reconnectDelay, timer, closed,
                   drops, hookVars, audioVars, genVars>>

\* A completion that queues the track of the abandoned job.
AbandonedQueued(h) ==
    /\ h \in inflight
    /\ Room(1)
    /\ inflight' = inflight \ {h}
    /\ jobsOf' = [jobsOf EXCEPT ![active] = <<[NewJob(h, "ready", {}) EXCEPT !.stage = "ready"]>>]
    /\ toClient' = Emit(<<Msg("generation_done")>>)
    /\ UNCHANGED <<jobLimit, active, stations, nextId, nowPlaying, wantNext, pendingSteer,
                   notes, taste, lastParams, abandoned, toServer, ws, reconnectDelay, timer, closed, drops,
                   hookVars, audioVars, genVars>>

\* The synthesis of an abandoned job completes: the result is ignored.
AbandonedDone(h) ==
    /\ h \in inflight
    /\ inflight' = inflight \ {h}
    /\ UNCHANGED <<jobLimit, active, stations, jobsOf, nextId, nowPlaying, wantNext, pendingSteer,
                   notes, taste, lastParams, abandoned, chanVars, hookVars, audioVars,
                   genVars>>

\* The client reported the end of the current track, or a skip.  In ready the
\* queued track becomes now-playing and the next cycle starts; otherwise the
\* trigger is coalesced and the job in flight plays when it completes.
\* pre: the events to emit first.
Advance(pre) ==
    LET s == active IN
    IF Stage(s) = "ready"
    THEN /\ nextId <= jobLimit
         /\ Room(Len(pre) + 2)
         /\ nowPlaying' = QueuedTrack(s)
         /\ wantNext' = FALSE
         /\ jobsOf' = [jobsOf EXCEPT ![s] = NextCycle(pendingSteer)]
         /\ pendingSteer' = {}
         /\ nextId' = nextId + 1
         /\ toClient' = Emit(pre \o <<NowPlayingMsg(QueuedTrack(s)), Msg("thinking")>>)
    ELSE LET jobs == IF nextId <= jobLimit
                     THEN StartJob(jobsOf[s], NewJob(nextId, "thinking", pendingSteer))
                     ELSE jobsOf[s]
             created == jobs # jobsOf[s]
         IN  /\ Room(Len(pre) + 1)
             /\ wantNext' = TRUE
             /\ jobsOf' = [jobsOf EXCEPT ![s] = jobs]
             /\ nextId' = IF created THEN nextId + 1 ELSE nextId
             /\ pendingSteer' = IF created THEN {} ELSE pendingSteer
             /\ toClient' = Emit(pre \o (IF created THEN <<Msg("thinking")>> ELSE <<>>))
             /\ UNCHANGED nowPlaying

\* A taste signal: a reaction record is added to the TasteProfile.
Record(signal) ==
    taste' = [taste EXCEPT ![active] = signal # "none"]

\* Command track_ended.
TrackEnded ==
    /\ toServer # <<>> /\ Head(toServer).type = "track_ended"
    /\ toServer' = Tail(toServer)
    /\ Advance(<<>>)
    /\ UNCHANGED <<jobLimit, active, stations, notes, taste, lastParams, abandoned, inflight, ws,
                   reconnectDelay, timer, closed, drops, hookVars, audioVars, genVars>>

\* Command skip.
Skip ==
    /\ toServer # <<>> /\ Head(toServer).type = "skip"
    /\ toServer' = Tail(toServer)
    /\ Record("skipped")
    /\ Advance(<<ReactionFeedbackMsg("skipped")>>)
    /\ UNCHANGED <<jobLimit, active, stations, notes, lastParams, abandoned, inflight, ws,
                   reconnectDelay, timer, closed, drops, hookVars, audioVars, genVars>>

\* Commands like and dislike.
React ==
    /\ toServer # <<>> /\ Head(toServer).type \in {"like", "dislike"}
    /\ toServer' = Tail(toServer)
    /\ LET signal == IF Head(toServer).type = "like" THEN "liked" ELSE "disliked"
       IN  /\ Room(1)
           /\ Record(signal)
           /\ toClient' = Emit(<<ReactionFeedbackMsg(signal)>>)
    /\ UNCHANGED <<jobLimit, active, stations, jobsOf, nextId, nowPlaying, wantNext, pendingSteer,
                   notes, lastParams, abandoned, inflight, ws, reconnectDelay, timer, closed, drops,
                   hookVars, audioVars, genVars>>

\* Command reaction, the text being a control keyword.
ReactionKeyword ==
    /\ toServer # <<>> /\ Head(toServer).type = "reaction"
    /\ Interpret(Head(toServer).text).signal = "skipped"
    /\ toServer' = Tail(toServer)
    /\ Record("skipped")
    /\ Advance(<<ReactionFeedbackMsg("skipped")>>)
    /\ UNCHANGED <<jobLimit, active, stations, notes, lastParams, abandoned, inflight, ws,
                   reconnectDelay, timer, closed, drops, hookVars, audioVars, genVars>>

\* Command reaction, the text being an explicit permanent note.
ReactionNote ==
    /\ toServer # <<>> /\ Head(toServer).type = "reaction"
    /\ Interpret(Head(toServer).text).kind = "note"
    /\ Len(notes[active]) < MaxNotes
    /\ toServer' = Tail(toServer)
    /\ notes' = [notes EXCEPT ![active] = Append(@, Head(toServer).text)]
    /\ UNCHANGED <<jobLimit, active, stations, jobsOf, nextId, nowPlaying, wantNext, pendingSteer,
                   taste, lastParams, abandoned, inflight, toClient, ws, reconnectDelay, timer, closed,
                   drops, hookVars, audioVars, genVars>>

\* Command reaction, the text being a steering instruction.  With no job it is
\* kept for the next prompt; with a job waiting, thinking or in error it joins
\* that job's prompt; with a job generating or ready that job is abandoned and
\* a new thinking cycle starts carrying the text (trigger (c)).
ReactionSteer ==
    /\ toServer # <<>> /\ Head(toServer).type = "reaction"
    /\ Interpret(Head(toServer).text).kind = "steer"
    /\ toServer' = Tail(toServer)
    /\ LET s == active
           t == Head(toServer).text
       IN  CASE Stage(s) = "idle" ->
                    /\ pendingSteer' = pendingSteer \cup {t}
                    /\ UNCHANGED <<jobsOf, nextId, abandoned, inflight, toClient>>
             [] Stage(s) \in {"waiting", "thinking", "error"} ->
                    /\ jobsOf' = [jobsOf EXCEPT ![s][1].steer = @ \cup {t}]
                    /\ UNCHANGED <<pendingSteer, nextId, abandoned, inflight, toClient>>
             [] Stage(s) \in {"generating", "ready"} ->
                    /\ nextId <= jobLimit
                    /\ Room(1)
                    /\ jobsOf' = [jobsOf EXCEPT ![s] = <<NewJob(nextId, "thinking", {t})>>]
                    /\ nextId' = nextId + 1
                    /\ abandoned' = abandoned \cup {Job(s).id}
                    /\ inflight' = IF Stage(s) = "generating"
                                   THEN inflight \cup {Job(s).id} ELSE inflight
                    /\ toClient' = Emit(<<RegeneratingMsg(t)>>)
                    /\ UNCHANGED pendingSteer
    /\ UNCHANGED <<jobLimit, active, stations, nowPlaying, wantNext, notes, taste, lastParams, ws,
                   reconnectDelay, timer, closed, drops, hookVars, audioVars, genVars>>

\* Commands switch_radio and create_radio: the station is created on first reference; generation
\* in flight for the previous station is abandoned; a queued track stays queued.
SwitchRadio ==
    /\ toServer # <<>> /\ Head(toServer).type \in {"switch_radio", "create_radio"}
    /\ toServer' = Tail(toServer)
    /\ LET s == active
           name == Head(toServer).text
       IN  IF name = s
           THEN UNCHANGED <<active, stations, jobsOf, nowPlaying, wantNext, abandoned,
                            inflight, toClient>>
           ELSE /\ Room(1)
                /\ active' = name
                /\ stations' = stations \cup {name}
                /\ jobsOf' = IF Stage(s) = "ready" THEN jobsOf
                             ELSE [jobsOf EXCEPT ![s] = <<>>]
                /\ abandoned' = IF Stage(s) = "generating"
                                THEN abandoned \cup {Job(s).id} ELSE abandoned
                /\ inflight' = IF Stage(s) = "generating"
                               THEN inflight \cup {Job(s).id} ELSE inflight
                /\ nowPlaying' = NoTrack
                /\ wantNext' = FALSE
                /\ toClient' = Emit(<<RadioSwitchedMsg(name, name \notin stations)>>)
    /\ UNCHANGED <<jobLimit, nextId, pendingSteer, notes, taste, lastParams, ws,
                   reconnectDelay, timer, closed, drops, hookVars, audioVars, genVars>>

\* Command clean_radio: clears the liked, disliked and skipped history.
CleanRadio ==
    /\ toServer # <<>> /\ Head(toServer).type = "clean_radio"
    /\ toServer' = Tail(toServer)
    /\ LET profile == CleanProfile([taste |-> taste[active], notes |-> notes[active]])
       IN  /\ taste' = [taste EXCEPT ![active] = profile.taste]
           /\ notes' = [notes EXCEPT ![active] = profile.notes]
    /\ UNCHANGED <<jobLimit, active, stations, jobsOf, nextId, nowPlaying, wantNext, pendingSteer,
                   lastParams, abandoned, inflight, toClient, ws, reconnectDelay, timer, closed,
                   drops, hookVars, audioVars, genVars>>

\* ------------------------------------------------------------------------
\* RadioSocket (web/src/lib/ws.ts)
\* ------------------------------------------------------------------------

\* ws.onopen; the engine answers the connection with the snapshot.
WsOpen ==
    /\ ws = "connecting"
    /\ ws' = "open"
    /\ reconnectDelay' = 1000
    /\ state' = [state EXCEPT !.connected = TRUE]
    /\ toClient' = Append(toClient, SyncMsg)
    /\ UNCHANGED <<engVars, toServer, timer, closed, drops, started, inputText, skipTimers, serverElapsedRef, nowPlayingRef,
                   nowPlayingAfterGenStart, played, seekTo, audioVars, genVars>>

\* private maxDelay = 10000
maxDelay == 10000

\* A delay that doubles without limit.
BackoffUncapped(d) == d * 2

\* Math.min(this.reconnectDelay * 2, this.maxDelay)
Backoff(d) == IF d * 2 < maxDelay THEN d * 2 ELSE maxDelay

\* No reconnect timer is pending.
NoTimer == 0

\* ws.onclose (after ws.onerror too), at most limit times: what was in flight is
\* lost, the reconnect timer is set with the current delay, then the delay is
\* doubled.
OnClose(limit) ==
    /\ ws \in {"connecting", "open", "closing"}
    /\ closed \/ drops < limit
    /\ IF closed
       THEN /\ ws' = "closed"
            /\ UNCHANGED <<timer, reconnectDelay, drops>>
       ELSE /\ ws' = "retry"
            /\ timer' = reconnectDelay
            /\ reconnectDelay' = Backoff(reconnectDelay)
            /\ drops' = drops + 1
    /\ state' = [state EXCEPT !.connected = FALSE]
    /\ toClient' = <<>>
    /\ toServer' = <<>>
    /\ UNCHANGED <<engVars, closed, started, inputText, skipTimers, serverElapsedRef, nowPlayingRef, nowPlayingAfterGenStart, played, seekTo,
                   audioVars, genVars>>

WsClose == OnClose(MaxDrops)

\* A connect() that opens a socket whatever the closed flag says.
ConnectAlways(isClosed) == "connecting"

\* connect(): if (this.closed) return; this.ws = new WebSocket(this.url)
Connect(isClosed) == IF isClosed THEN "closed" ELSE "connecting"

\* A reconnect timer that fires without connecting.
ReconnectNever ==
    /\ ws = "retry"
    /\ UNCHANGED vars

\* The reconnect timer fires: connect().
WsReconnect ==
    /\ ws = "retry"
    /\ ws' = Connect(closed)
    /\ timer' = NoTimer
    /\ UNCHANGED <<engVars, toClient, toServer, reconnectDelay, closed, drops, hookVars,
                   audioVars, genVars>>

\* close(): this.closed = true; this.ws?.close(). The close event of a socket
\* that was connecting or open comes later.
SocketClose ==
    /\ ~closed
    /\ closed' = TRUE
    /\ ws' = IF ws \in {"connecting", "open"} THEN "closing" ELSE ws
    /\ UNCHANGED <<engVars, toClient, toServer, reconnectDelay, timer, drops, hookVars,
                   audioVars, genVars>>

\* A send that queues the command whatever the state of the socket.
SendQueued(cmd) == Append(toServer, cmd)

\* RadioSocket.send: dropped unless the socket is open.
Send(cmd) == IF ws = "open" THEN Append(toServer, cmd) ELSE toServer

\* Room for one more command in flight.
CanSend == ws = "open" => Len(toServer) < MaxCmds

\* ------------------------------------------------------------------------
\* useRadio (web/src/hooks/useRadio.ts)
\* ------------------------------------------------------------------------

NoError == "null"

IdlePipeline == [stage |-> "idle", llmDone |-> FALSE, warnings |-> <<>>, lastError |-> NoError]

\* useState<RadioState>(...): the fields the events write.
InitialState ==
    [connected |-> FALSE, radioName |-> "default", nowPlaying |-> NoTrack,
     isPlaying |-> FALSE, elapsed |-> 0, duration |-> 0, volume |-> 80,
     generating |-> FALSE, queueReady |-> FALSE, generationParams |-> NoLast,
     pipeline |-> IdlePipeline]

Receive(type) ==
    /\ toClient # <<>> /\ Head(toClient).type = type
    /\ toClient' = Tail(toClient)

\* A handler that hands nothing to the AudioManager.
NotHanded(track) == played

\* if (audio_url && started.current) playTrack / crossfadeTo: both hand the
\* URL to the AudioManager.
Handed(track) == IF track # NoTrack /\ started THEN track ELSE played

\* A sync handler that takes the station's name only.
SyncedName(st, m) == [st EXCEPT !.radioName = m.text]

\* case "sync": the RadioState written by setState.
Synced(st, m) ==
    [st EXCEPT !.radioName = m.text, !.nowPlaying = m.track,
               !.volume = IF m.volume = NoVolume THEN @ ELSE m.volume,
               !.generating = m.flag]

\* case "sync"
OnSync ==
    /\ Receive("sync")
    /\ LET m == Head(toClient) IN
        /\ nowPlayingRef' = m.track
        /\ serverElapsedRef' = m.elapsed
        /\ state' = Synced(state, m)
        /\ played' = Handed(m.track)
        /\ seekTo' = IF m.track # NoTrack /\ started THEN m.elapsed ELSE seekTo
    /\ UNCHANGED <<engVars, toServer, ws, reconnectDelay, timer, closed, drops, started, inputText, skipTimers,
                   nowPlayingAfterGenStart, audioVars, genVars>>

\* A now_playing handler that leaves the displayed track as it was.
AnnouncedStale(st, m) ==
    [st EXCEPT !.queueReady = FALSE, !.generationParams = NoLast,
               !.pipeline.stage = "idle", !.pipeline.llmDone = FALSE]

\* case "now_playing": the RadioState written by setState.
Announced(st, m) ==
    [st EXCEPT !.nowPlaying = m.track, !.queueReady = FALSE, !.generationParams = NoLast,
               !.pipeline.stage = "idle", !.pipeline.llmDone = FALSE]

\* A now_playing handler that shows the track and leaves nowPlayingRef alone.
OnNowPlayingShown ==
    /\ Receive("now_playing")
    /\ LET m == Head(toClient) IN
        /\ nowPlayingAfterGenStart' = TRUE
        /\ state' = Announced(state, m)
        /\ played' = Handed(m.track)
        /\ seekTo' = IF m.track # NoTrack /\ started THEN 0 ELSE seekTo
    /\ UNCHANGED <<engVars, toServer, ws, reconnectDelay, timer, closed, drops, started, inputText,
                   skipTimers, nowPlayingRef, serverElapsedRef, audioVars, genVars>>

\* case "now_playing"
OnNowPlaying ==
    /\ Receive("now_playing")
    /\ LET m == Head(toClient) IN
        /\ nowPlayingRef' = m.track
        /\ nowPlayingAfterGenStart' = TRUE
        /\ state' = Announced(state, m)
        /\ played' = Handed(m.track)
        /\ seekTo' = IF m.track # NoTrack /\ started THEN 0 ELSE seekTo
    /\ UNCHANGED <<engVars, toServer, ws, reconnectDelay, timer, closed, drops, started, inputText, skipTimers, serverElapsedRef, audioVars,
                   genVars>>

\* A playback_state handler that takes the server's play state as well.
PlaybackSynced(st, m) ==
    [st EXCEPT !.volume = IF m.volume = NoVolume THEN @ ELSE m.volume, !.isPlaying = m.flag]

\* case "playback_state": setState((s) => ({ ...s, volume: msg.data.volume ?? s.volume }))
PlaybackState(st, m) == [st EXCEPT !.volume = IF m.volume = NoVolume THEN @ ELSE m.volume]

\* case "playback_state"
OnPlaybackState ==
    /\ Receive("playback_state")
    /\ state' = PlaybackState(state, Head(toClient))
    /\ UNCHANGED <<engVars, toServer, ws, reconnectDelay, timer, closed, drops, started, inputText, skipTimers, nowPlayingRef,
                   serverElapsedRef, nowPlayingAfterGenStart, played, seekTo, audioVars, genVars>>

\* A tick handler that displays the server's position.
TickDisplayed(st, m) == [st EXCEPT !.elapsed = m.elapsed]

\* case "tick": only serverElapsedRef.current is written.
Tick(st, m) == st

\* case "tick"
OnTick ==
    /\ Receive("tick")
    /\ serverElapsedRef' = Head(toClient).elapsed
    /\ state' = Tick(state, Head(toClient))
    /\ UNCHANGED <<engVars, toServer, ws, reconnectDelay, timer, closed, drops, started, inputText, skipTimers, nowPlayingRef,
                   nowPlayingAfterGenStart, played, seekTo, audioVars, genVars>>

\* case "thinking"
OnThinking ==
    /\ Receive("thinking")
    /\ state' = [state EXCEPT !.generating = TRUE,
                              !.pipeline = [stage |-> "thinking", llmDone |-> FALSE,
                                            warnings |-> <<>>, lastError |-> NoError]]
    /\ UNCHANGED <<engVars, toServer, ws, reconnectDelay, timer, closed, drops, started, inputText, skipTimers, serverElapsedRef, nowPlayingRef,
                   nowPlayingAfterGenStart, played, seekTo, audioVars, genVars>>

\* A generation_start handler that drops the warnings of the event.
DroppedWarnings(m) == <<>>

\* Array.isArray(msg.data.warnings) ? msg.data.warnings : []
GenerationStartWarnings(m) == m.warnings

\* case "generation_start"
OnGenerationStart ==
    /\ Receive("generation_start")
    /\ LET m == Head(toClient) IN
        /\ nowPlayingAfterGenStart' = FALSE
        /\ state' = [state EXCEPT !.generating = TRUE, !.queueReady = FALSE,
                                  !.generationParams = m.params,
                                  !.pipeline = [stage |-> "generating", llmDone |-> TRUE,
                                                warnings |-> GenerationStartWarnings(m),
                                                lastError |-> NoError]]
    /\ UNCHANGED <<engVars, toServer, ws, reconnectDelay, timer, closed, drops, started, inputText, skipTimers, serverElapsedRef, nowPlayingRef,
                   played, seekTo, audioVars, genVars>>

\* A generation_done handler that takes every finished track for a queued one.
AlwaysQueued(st, after) ==
    [st EXCEPT !.generating = FALSE, !.queueReady = TRUE, !.pipeline.stage = "ready"]

\* case "generation_done": the RadioState written by setState; after is
\* nowPlayingAfterGenStart.current.
GenerationDone(st, after) ==
    LET isQueued == ~after IN
    [st EXCEPT !.generating = FALSE, !.queueReady = isQueued,
               !.generationParams = IF isQueued THEN @ ELSE NoLast,
               !.pipeline.stage = IF isQueued THEN "ready" ELSE "idle"]

\* case "generation_done"
OnGenerationDone ==
    /\ Receive("generation_done")
    /\ state' = GenerationDone(state, nowPlayingAfterGenStart)
    /\ UNCHANGED <<engVars, toServer, ws, reconnectDelay, timer, closed, drops, started, inputText, skipTimers, serverElapsedRef, nowPlayingRef,
                   nowPlayingAfterGenStart, played, seekTo, audioVars, genVars>>

\* A regenerating handler that keeps the queued state.
KeepQueued(st) == [st EXCEPT !.generating = TRUE]

\* case "regenerating": the RadioState written by setState.
Regenerated(st) ==
    [st EXCEPT !.generating = TRUE, !.queueReady = FALSE, !.generationParams = NoLast,
               !.pipeline = [stage |-> "thinking", llmDone |-> FALSE, warnings |-> <<>>,
                             lastError |-> NoError]]

\* case "regenerating"
OnRegenerating ==
    /\ Receive("regenerating")
    /\ nowPlayingAfterGenStart' = FALSE
    /\ state' = Regenerated(state)
    /\ UNCHANGED <<engVars, toServer, ws, reconnectDelay, timer, closed, drops, started, inputText, skipTimers, serverElapsedRef, nowPlayingRef,
                   played, seekTo, audioVars, genVars>>

\* case "error"
OnError ==
    /\ Receive("error")
    /\ state' = [state EXCEPT !.pipeline.stage = "error",
                              !.pipeline.lastError = Head(toClient).text]
    /\ UNCHANGED <<engVars, toServer, ws, reconnectDelay, timer, closed, drops, started, inputText, skipTimers, serverElapsedRef, nowPlayingRef,
                   nowPlayingAfterGenStart, played, seekTo, audioVars, genVars>>

\* A radio_switched handler that changes the name only.
SwitchedNameOnly ==
    /\ Receive("radio_switched")
    /\ nowPlayingAfterGenStart' = FALSE
    /\ state' = [state EXCEPT !.radioName = Head(toClient).text]
    /\ UNCHANGED <<engVars, toServer, ws, reconnectDelay, timer, closed, drops, started,
                   inputText, skipTimers, serverElapsedRef, nowPlayingRef, played, seekTo, audioVars,
                   genVars>>

\* case "radio_switched"
OnRadioSwitched ==
    /\ Receive("radio_switched")
    /\ nowPlayingAfterGenStart' = FALSE
    /\ state' = [state EXCEPT !.radioName = Head(toClient).text, !.nowPlaying = NoTrack,
                              !.generating = FALSE, !.queueReady = FALSE,
                              !.generationParams = NoLast, !.pipeline = IdlePipeline]
    /\ UNCHANGED <<engVars, toServer, ws, reconnectDelay, timer, closed, drops, started, inputText, skipTimers, serverElapsedRef, nowPlayingRef,
                   played, seekTo, audioVars, genVars>>

\* case "reaction_feedback": a toast and an event-log entry only.
OnReactionFeedback ==
    /\ Receive("reaction_feedback")
    /\ UNCHANGED <<engVars, toServer, ws, reconnectDelay, timer, closed, drops, hookVars, audioVars,
                   genVars>>

\* case "waiting"
OnWaiting ==
    /\ Receive("waiting")
    /\ state' = [state EXCEPT !.generating = TRUE,
                              !.pipeline = [stage |-> "waiting", llmDone |-> FALSE,
                                            warnings |-> <<>>,
                                            lastError |-> Head(toClient).text]]
    /\ UNCHANGED <<engVars, toServer, ws, reconnectDelay, timer, closed, drops, started, inputText, skipTimers, serverElapsedRef, nowPlayingRef,
                   nowPlayingAfterGenStart, played, seekTo, audioVars, genVars>>

\* start()
Start ==
    /\ ~started
    /\ started' = TRUE
    /\ played' = IF nowPlayingRef # NoTrack THEN nowPlayingRef ELSE played
    /\ seekTo' = IF nowPlayingRef # NoTrack THEN serverElapsedRef ELSE seekTo
    /\ UNCHANGED <<engVars, chanVars, state, nowPlayingRef, serverElapsedRef,
                   nowPlayingAfterGenStart, inputText, skipTimers, audioVars, genVars>>

\* The controls are shown once start() has run (App: showStart).
Command(cmd) ==
    /\ started
    /\ CanSend
    /\ toServer' = Send(cmd)
    /\ UNCHANGED <<engVars, toClient, ws, reconnectDelay, timer, closed, drops, hookVars, audioVars,
                   genVars>>

\* AudioManager onEnded: the audible track reached its end.
AudioEnded == played # NoTrack /\ Command(Cmd("track_ended", ""))

\* AudioManager onError, then the 3000 ms timer.
AudioError == played # NoTrack /\ Command(Cmd("skip", ""))

\* Controls: the skip button, disabled while generating.
ClickSkip == ~state.generating /\ Command(Cmd("skip", ""))

\* Media session: onNextTrack.
MediaNextTrack == nowPlayingRef # NoTrack /\ Command(Cmd("skip", ""))

\* Controls: like and dislike.
ClickReaction(type) == Command(Cmd(type, ""))

\* ReactionInput.handleSubmit: the trimmed, non-empty text.
SubmitText(text) == Command(Cmd("reaction", text))

\* ReactionInput: the user types into the empty input box.
TypeText(t) ==
    /\ started
    /\ inputText = ""
    /\ inputText' = t
    /\ UNCHANGED <<engVars, chanVars, state, started, skipTimers, nowPlayingRef, serverElapsedRef,
                   nowPlayingAfterGenStart, played, seekTo, audioVars, genVars>>

\* ReactionInput.handleSubmit on the typed text: onSubmit(trimmed), which is
\* send("reaction", { text }), then setText("").
SubmitInput ==
    /\ started
    /\ inputText # ""
    /\ CanSend
    /\ toServer' = Send(Cmd("reaction", inputText))
    /\ inputText' = ""
    /\ UNCHANGED <<engVars, toClient, ws, reconnectDelay, timer, closed, drops, state, started, skipTimers,
                   nowPlayingRef, serverElapsedRef, nowPlayingAfterGenStart, played, seekTo, audioVars,
                   genVars>>

\* RadioDropdown: onSwitch for a listed station, onCreate for a new name.
ClickSwitch(name) ==
    Command(Cmd(IF name \in stations THEN "switch_radio" ELSE "create_radio", name))

\* CleanDataDialog: onConfirm.
ConfirmClean == Command(Cmd("clean_radio", ""))

\* now_playing.audio_url of a track.
UrlOf(track) == IF track % 2 = 1 THEN "a" ELSE "b"

\* AudioManager.hasSource
HasSource == audio.src # NoUrl

\* AudioManager.paused: the element's paused attribute.
Paused == audio.st \in {"empty", "paused"}

\* A sync handler that plays the announced track whether or not start() ran.
PlaySyncEager ==
    /\ Receive("sync")
    /\ LET m == Head(toClient) IN
        /\ nowPlayingRef' = m.track
        /\ serverElapsedRef' = m.elapsed
        /\ state' = Synced(state, m)
        /\ played' = IF m.track # NoTrack THEN m.track ELSE played
        /\ seekTo' = IF m.track # NoTrack THEN m.elapsed ELSE seekTo
        /\ IF m.track # NoTrack
           THEN PlayTrack(UrlOf(m.track))
           ELSE UNCHANGED audioVars
    /\ UNCHANGED <<engVars, toServer, ws, reconnectDelay, timer, closed, drops, started, inputText, skipTimers,
                   nowPlayingAfterGenStart, genVars>>

\* case "sync", with the AudioManager: playTrack(now_playing.audio_url, elapsed).
PlaySync ==
    /\ Receive("sync")
    /\ LET m == Head(toClient) IN
        /\ nowPlayingRef' = m.track
        /\ serverElapsedRef' = m.elapsed
        /\ state' = Synced(state, m)
        /\ played' = Handed(m.track)
        /\ seekTo' = IF m.track # NoTrack /\ started THEN m.elapsed ELSE seekTo
        /\ IF m.track # NoTrack /\ started
           THEN PlayTrack(UrlOf(m.track))
           ELSE UNCHANGED audioVars
    /\ UNCHANGED <<engVars, toServer, ws, reconnectDelay, timer, closed, drops, started, inputText, skipTimers,
                   nowPlayingAfterGenStart, genVars>>

\* case "now_playing", with the AudioManager: crossfadeTo when a source is
\* set and not paused, playTrack otherwise.
PlayNowPlaying ==
    /\ Receive("now_playing")
    /\ LET m == Head(toClient) IN
        /\ nowPlayingRef' = m.track
        /\ nowPlayingAfterGenStart' = TRUE
        /\ state' = Announced(state, m)
        /\ played' = Handed(m.track)
        /\ seekTo' = IF m.track # NoTrack /\ started THEN 0 ELSE seekTo
        /\ IF started /\ m.track # NoTrack
           THEN IF HasSource /\ ~Paused
                THEN CrossfadeTo(UrlOf(m.track))
                ELSE PlayTrack(UrlOf(m.track))
           ELSE UNCHANGED audioVars
    /\ UNCHANGED <<engVars, toServer, ws, reconnectDelay, timer, closed, drops, started, inputText, skipTimers, serverElapsedRef,
                   genVars>>

\* start(), with the AudioManager: playTrack(np.audio_url, serverElapsedRef).
PlayStart ==
    /\ ~started
    /\ started' = TRUE
    /\ played' = IF nowPlayingRef # NoTrack THEN nowPlayingRef ELSE played
    /\ seekTo' = IF nowPlayingRef # NoTrack THEN serverElapsedRef ELSE seekTo
    /\ IF nowPlayingRef # NoTrack
       THEN PlayTrack(UrlOf(nowPlayingRef))
       ELSE UNCHANGED audioVars
    /\ UNCHANGED <<engVars, chanVars, state, nowPlayingRef, serverElapsedRef,
                   nowPlayingAfterGenStart, inputText, skipTimers, genVars>>

\* togglePause(): resume() and send("resume") when paused, pause() and
\* send("pause") otherwise.
TogglePause ==
    /\ started
    /\ CanSend
    /\ \/ Resume /\ toServer' = Send(Cmd("resume", ""))
       \/ Pause /\ toServer' = Send(Cmd("pause", ""))
    /\ UNCHANGED <<engVars, toClient, ws, reconnectDelay, timer, closed, drops, hookVars, genVars>>

\* setVolume(level): the AudioManager's volume setter with level / 100, the
\* displayed volume, and send("volume").
UserSetVolume(level) ==
    /\ CanSend
    /\ SetVolume(level)
    /\ state' = [state EXCEPT !.volume = level]
    /\ toServer' = Send(Cmd("volume", ""))
    /\ UNCHANGED <<engVars, toClient, ws, reconnectDelay, timer, closed, drops, started,
                   nowPlayingRef, serverElapsedRef, nowPlayingAfterGenStart, played, seekTo, inputText,
                   skipTimers, genVars>>

\* What the audio element reports in a timeupdate event.
LocalTimes == {[elapsed |-> 3, duration |-> 9]}

\* The element of a track handed to the AudioManager fires 'timeupdate';
\* onTimeUpdate: setState((s) => ({ ...s, elapsed, duration }))
TimeUpdate(t) ==
    /\ played # NoTrack
    /\ state' = [state EXCEPT !.elapsed = t.elapsed, !.duration = t.duration]
    /\ UNCHANGED <<engVars, chanVars, started, inputText, skipTimers, nowPlayingRef, serverElapsedRef,
                   nowPlayingAfterGenStart, played, seekTo, audioVars, genVars>>

\* An end that restarts the track without reporting it.
PlayEndedSilent ==
    /\ Ended
    /\ UNCHANGED <<engVars, chanVars, hookVars, genVars>>

\* The element fires 'ended': the next or the looped track starts and onEnded
\* sends track_ended.
PlayEnded ==
    /\ CanSend
    /\ Ended
    /\ toServer' = Send(Cmd("track_ended", ""))
    /\ UNCHANGED <<engVars, toClient, ws, reconnectDelay, timer, closed, drops, hookVars, genVars>>

\* The element fires 'error': playFallback(), and onError shows a toast and
\* sets the 3000 ms timer.
PlayError ==
    /\ skipTimers < MaxTimers
    /\ ErrorEvent
    /\ skipTimers' = skipTimers + 1
    /\ UNCHANGED <<engVars, chanVars, state, started, nowPlayingRef, serverElapsedRef,
                   nowPlayingAfterGenStart, played, seekTo, inputText, genVars>>

\* onError's timer fires: socketRef.current?.send("skip").
SkipTimer ==
    /\ skipTimers > 0
    /\ CanSend
    /\ toServer' = Send(Cmd("skip", ""))
    /\ skipTimers' = skipTimers - 1
    /\ UNCHANGED <<engVars, toClient, ws, reconnectDelay, timer, closed, drops, state, started, nowPlayingRef,
                   serverElapsedRef, nowPlayingAfterGenStart, played, seekTo, inputText, audioVars,
                   genVars>>

\* The state at start-up: station "default", first run, socket connecting.
RadioStart ==
    /\ active = "default"
    /\ stations = {"default"}
    /\ jobsOf = [s \in StationNames |-> <<>>]
    /\ nextId = 1
    /\ jobLimit \in {MaxId, StationJobs}
    /\ nowPlaying = NoTrack
    /\ wantNext = FALSE
    /\ pendingSteer = {}
    /\ notes = [s \in StationNames |-> <<>>]
    /\ taste = [s \in StationNames |-> FALSE]
    /\ lastParams = [s \in StationNames |-> NoLast]
    /\ abandoned = {}
    /\ inflight = {}
    /\ toClient = <<>>
    /\ toServer = <<>>
    /\ ws = "connecting"
    /\ reconnectDelay = 1000
    /\ timer = NoTimer
    /\ closed = FALSE
    /\ drops = 0
    /\ state = InitialState
    /\ started = FALSE
    /\ nowPlayingRef = NoTrack
    /\ serverElapsedRef = 0
    /\ inputText = ""
    /\ skipTimers = 0
    /\ nowPlayingAfterGenStart = FALSE
    /\ played = NoTrack
    /\ seekTo = 0

\* ------------------------------------------------------------------------
\* Specifications
\* ------------------------------------------------------------------------

GenInit ==
    /\ AudioStart
    /\ RadioStart
    /\ jobLimit = MaxId
    /\ genLast \in GenLasts
    /\ genOut \in [1..MaxAttempts -> GenResponses]
    /\ genRes = GenIdle

GenCall ==
    /\ ~genRes.done
    /\ genRes' = Generate(genLast, genOut)
    /\ UNCHANGED <<genLast, genOut, audioVars, radioVars>>

SpecGen == GenInit /\ [][GenCall]_vars

AudioInit == AudioStart /\ GenStart /\ RadioStart /\ jobLimit = MaxId

SpecAudio == AudioInit /\ [][AudioNext /\ UNCHANGED <<genVars, radioVars>>]_vars

\* Fallback lists after a long session, full or one short of full: the oldest
\* entry is "b", the later ones are "a".
LongQueues ==
    {[i \in 1..n |-> IF i = 1 THEN "b" ELSE "a"] : n \in {FallbackMax - 1, FallbackMax}}

\* The AudioManager after the successful playTrack calls that filled the list:
\* the newest entry is playing.
FallbackInit ==
    /\ fallbackQueue \in LongQueues
    /\ audio = [src |-> Last(fallbackQueue), st |-> "playing"]
    /\ okUrls = {fallbackQueue[i] : i \in 1..Len(fallbackQueue)}
    /\ nextTrackUrl = NoUrl
    /\ pend = <<>>
    /\ xf = <<>>
    /\ badUrls = {}
    /\ userPaused = FALSE
    /\ ncalls = 0
    /\ _volume = DefaultVolume
    /\ elVolume = DefaultVolume
    /\ baseVols = <<>>
    /\ GenStart
    /\ RadioStart
    /\ jobLimit = MaxId

SpecFallback == FallbackInit /\ [][AudioNext /\ UNCHANGED <<genVars, radioVars>>]_vars

\* The AudioManager with a caller that also changes the volume.
VolumeNext ==
    \/ AudioNext /\ UNCHANGED <<genVars, radioVars>>
    \/ (\E v \in Volumes : SetVolume(v)) /\ UNCHANGED <<genVars, radioVars>>

VolumeInit == AudioStart /\ GenStart /\ RadioStart /\ jobLimit = MaxId

SpecVolume == VolumeInit /\ [][VolumeNext]_vars

Init == AudioStart /\ GenStart /\ RadioStart /\ jobLimit = MaxId

\* One station: the pipeline, the channel with its drops, and the hook.
Next ==
    \/ Trigger({"waiting", "thinking"})
    \/ BackendReady
    \/ ThinkDone(EngineOutputs)
    \/ SynthDone
    \/ Fail
    \/ Recover
    \/ \E h \in 1..MaxId : AbandonedDone(h)
    \/ TrackEnded
    \/ Skip
    \/ ReactionKeyword
    \/ ReactionSteer
    \/ WsOpen
    \/ WsClose
    \/ WsReconnect
    \/ OnSync
    \/ OnNowPlaying
    \/ OnThinking
    \/ OnGenerationStart
    \/ OnGenerationDone
    \/ OnRegenerating
    \/ OnError
    \/ OnReactionFeedback
    \/ OnWaiting
    \/ Start
    \/ AudioEnded
    \/ AudioError
    \/ ClickSkip
    \/ MediaNextTrack
    \/ \E text \in SteerTexts \cup {"skip"} : SubmitText(text)

Spec == Init /\ [][Next]_vars

\* Every command, two stations, notes and reactions; the inference service
\* answers validly at once, nothing fails, and the channel stays up.
StationNext ==
    \/ Trigger({"thinking"})
    \/ ThinkDone({[i \in 1..MaxAttempts |-> GoodResponse]})
    \/ SynthDone
    \/ \E h \in 1..MaxId : AbandonedDone(h)
    \/ Skip
    \/ React
    \/ ReactionNote
    \/ ReactionSteer
    \/ SwitchRadio
    \/ CleanRadio
    \/ WsOpen
    \/ OnSync
    \/ OnNowPlaying
    \/ OnThinking
    \/ OnGenerationStart
    \/ OnGenerationDone
    \/ OnRegenerating
    \/ OnRadioSwitched
    \/ OnReactionFeedback
    \/ Start
    \/ ClickSkip
    \/ \E type \in {"like", "dislike"} : ClickReaction(type)
    \/ \E text \in SteerTexts \cup NoteTexts : SubmitText(text)
    \/ \E name \in StationNames : ClickSwitch(name)
    \/ ConfirmClean

StationInit == AudioStart /\ GenStart /\ RadioStart /\ jobLimit = StationJobs

SpecStation == StationInit /\ [][StationNext]_vars

\* ------------------------------------------------------------------------
\* Claims
\* ------------------------------------------------------------------------

\* No play() is pending, no catch handler is due and no crossfade is running.
\* The text input on one station: the engine's pipeline with a service that
\* answers validly at once, the channel with its drops, and the input box.
InputNext ==
    \/ Trigger({"thinking"})
    \/ ThinkDone({[i \in 1..MaxAttempts |-> GoodResponse]})
    \/ SynthDone
    \/ \E h \in 1..MaxId : AbandonedDone(h)
    \/ TrackEnded
    \/ ReactionSteer
    \/ WsOpen
    \/ WsClose
    \/ WsReconnect
    \/ OnSync
    \/ OnNowPlaying
    \/ OnThinking
    \/ OnGenerationStart
    \/ OnGenerationDone
    \/ OnRegenerating
    \/ Start
    \/ AudioEnded
    \/ \E t \in SteerTexts : TypeText(t)
    \/ SubmitInput

InputInit == AudioStart /\ GenStart /\ RadioStart /\ jobLimit = MaxId

SpecInput == InputInit /\ [][InputNext]_vars

\* The hook handles the event at the head of the channel.
HandleEvent ==
    \/ OnSync
    \/ OnNowPlaying
    \/ OnThinking
    \/ OnGenerationStart
    \/ OnGenerationDone
    \/ OnError
    \/ OnWaiting

\* Failures and recovery with a listener who issues no command: the pipeline
\* with its failures, the channel with its drops, and the hook.
RecoverNext ==
    \/ Trigger({"waiting", "thinking"})
    \/ BackendReady
    \/ ThinkDone(EngineOutputs)
    \/ SynthDone
    \/ Fail
    \/ Recover
    \/ WsOpen
    \/ WsClose
    \/ WsReconnect
    \/ HandleEvent
    \/ Start

RecoverInit == AudioStart /\ GenStart /\ RadioStart /\ jobLimit = MaxId

\* The engine re-attempts on its own, and the browser runs the socket's
\* onmessage callback for every event delivered.
SpecRecover ==
    RecoverInit /\ [][RecoverNext]_vars /\ WF_vars(Recover) /\ WF_vars(HandleEvent)

\* Abandonment: steering texts and station switches while jobs are generating
\* or ready, over a run of MaxId jobs; the channel stays up.
AbandonNext ==
    \/ Trigger({"thinking"})
    \/ ThinkDone({[i \in 1..MaxAttempts |-> GoodResponse]})
    \/ SynthDone
    \/ \E h \in 1..MaxId : AbandonedDone(h)
    \/ TrackEnded
    \/ ReactionSteer
    \/ SwitchRadio
    \/ WsOpen
    \/ OnSync
    \/ OnNowPlaying
    \/ OnThinking
    \/ OnGenerationStart
    \/ OnGenerationDone
    \/ OnRegenerating
    \/ OnRadioSwitched
    \/ Start
    \/ AudioEnded
    \/ \E text \in SteerTexts : SubmitText(text)
    \/ \E name \in StationNames : ClickSwitch(name)

AbandonInit == AudioStart /\ GenStart /\ RadioStart /\ jobLimit = MaxId

SpecAbandon == AbandonInit /\ [][AbandonNext]_vars

\* Asset failures with a listener who issues no command: the pipeline, the
\* channel, and the hook with its AudioManager.
FailureNext ==
    \/ Trigger({"thinking"})
    \/ ThinkDone({[i \in 1..MaxAttempts |-> GoodResponse]})
    \/ SynthDone
    \/ TrackEnded
    \/ Skip
    \/ WsOpen
    \/ PlaySync
    \/ PlayNowPlaying
    \/ OnThinking
    \/ OnGenerationStart
    \/ OnGenerationDone
    \/ OnReactionFeedback
    \/ PlayStart
    \/ PlayEnded
    \/ PlayError
    \/ SkipTimer
    \/ PlayResolved /\ UNCHANGED <<genVars, radioVars>>
    \/ PlayRejected /\ UNCHANGED <<genVars, radioVars>>
    \/ PlayTrackCatch /\ UNCHANGED <<genVars, radioVars>>
    \/ \E i \in 1..Len(xf) : CrossfadeStarted(i) /\ UNCHANGED <<genVars, radioVars>>
    \/ \E i \in 1..Len(xf) : CrossfadeFailed(i) /\ UNCHANGED <<genVars, radioVars>>
    \/ \E i \in 1..Len(xf) : CrossfadeNextError(i) /\ UNCHANGED <<genVars, radioVars>>
    \/ \E i \in 1..Len(xf) : CrossfadeDone(i) /\ UNCHANGED <<genVars, radioVars>>

FailureInit == AudioStart /\ GenStart /\ RadioStart /\ jobLimit = MaxId

SpecFailure == FailureInit /\ [][FailureNext]_vars

\* The hook handles the event at the head of the channel, with the
\* AudioManager.
HandlePlayback ==
    \/ PlaySync
    \/ PlayNowPlaying
    \/ OnThinking
    \/ OnGenerationStart
    \/ OnGenerationDone

\* A play() promise of the AudioManager settles, or its catch handler runs.
PlaySettles ==
    /\ PlayResolved \/ PlayTrackCatch
    /\ UNCHANGED <<genVars, radioVars>>

\* A running crossfade goes on: next.play() resolves, the ramp ends.
CrossfadeRuns ==
    /\ \E i \in 1..Len(xf) : CrossfadeStarted(i) \/ CrossfadeDone(i)
    /\ UNCHANGED <<genVars, radioVars>>

\* A track lasts longer than a message is in flight or a crossfade ramp
\* (CROSSFADE_MS) runs: its end comes when neither is under way.
TrackRunsOut ==
    /\ toServer = <<>>
    /\ toClient = <<>>
    /\ xf = <<>>
    /\ PlayEnded

\* Track ends and advances over a channel that drops: the pipeline without
\* failures, the channel, and the hook with its AudioManager; every asset
\* loads.
AdvanceNext ==
    \/ Trigger({"thinking"})
    \/ ThinkDone({[i \in 1..MaxAttempts |-> GoodResponse]})
    \/ SynthDone
    \/ TrackEnded
    \/ WsOpen
    \/ WsClose
    \/ WsReconnect
    \/ PlayStart
    \/ HandlePlayback
    \/ TrackRunsOut
    \/ PlaySettles
    \/ CrossfadeRuns

AdvanceInit == AudioStart /\ GenStart /\ RadioStart /\ jobLimit = MaxId

\* The engine handles the commands it receives, the socket reconnects and
\* opens, and the browser runs the client's callbacks.
SpecAdvance ==
    /\ AdvanceInit /\ [][AdvanceNext]_vars
    /\ WF_vars(TrackEnded) /\ WF_vars(WsReconnect) /\ WF_vars(WsOpen)
    /\ WF_vars(HandlePlayback) /\ WF_vars(TrackRunsOut) /\ WF_vars(PlaySettles)
    /\ WF_vars(CrossfadeRuns)

\* What a server may send to the client: every event type the hook handles.
ClientEvents ==
    {[Msg("sync") EXCEPT !.track = t, !.text = "default", !.volume = 60, !.elapsed = 4] :
        t \in {NoTrack, 1}}
    \cup {NowPlayingMsg(t) : t \in {1, 2}}
    \cup {[Msg("tick") EXCEPT !.elapsed = 5]}
    \cup {[Msg("playback_state") EXCEPT !.volume = 50, !.flag = f] : f \in BOOLEAN}
    \cup {[Msg("generation_start") EXCEPT !.params = [has |-> TRUE, p |-> GoodResponse.p]]}
    \cup {Msg("thinking"), Msg("generation_done"), ErrorMsg,
          WaitingMsg, RegeneratingMsg("steer"), RadioSwitchedMsg("default", FALSE),
          ReactionFeedbackMsg("liked")}

\* The events on which the hook calls its AudioManager, and playback_state.
PlayEvents == {m \in ClientEvents : m.type \in {"sync", "now_playing", "playback_state"}}

\* The server sends an event.
ServerSends(m) ==
    /\ ws = "open"
    /\ toClient = <<>>
    /\ toClient' = <<m>>
    /\ UNCHANGED <<engVars, toServer, ws, reconnectDelay, timer, closed, drops, hookVars, audioVars,
                   genVars>>

\* The server reads a command.
ServerTakes ==
    /\ toServer # <<>>
    /\ toServer' = Tail(toServer)
    /\ UNCHANGED <<engVars, toClient, ws, reconnectDelay, timer, closed, drops, hookVars, audioVars,
                   genVars>>

\* Bound on the closes of the socket in a session with many failed connects.
MaxCloses == 6

\* The RadioSocket through a run of failed and successful connects, with the
\* hook handling the sync each open brings and the playback_state events, and
\* a listener who starts and skips.
SocketNext ==
    \/ WsOpen
    \/ OnClose(MaxCloses)
    \/ WsReconnect
    \/ \E f \in BOOLEAN : ServerSends([Msg("playback_state") EXCEPT !.volume = 50, !.flag = f])
    \/ PlaySync
    \/ OnPlaybackState
    \/ PlayStart
    \/ Command(Cmd("skip", ""))

SocketInit == AudioStart /\ GenStart /\ RadioStart /\ jobLimit = MaxId

SpecSocket == SocketInit /\ [][SocketNext]_vars

\* A listener who uses the transport controls and skips while the channel
\* drops and reconnects; the server announces tracks in its snapshots.
OfflineNext ==
    \/ WsOpen
    \/ WsClose
    \/ WsReconnect
    \/ \E m \in {e \in PlayEvents : e.type = "sync"} : ServerSends(m)
    \/ ServerTakes
    \/ PlaySync
    \/ PlayStart
    \/ TogglePause
    \/ \E v \in Volumes : UserSetVolume(v)
    \/ Command(Cmd("skip", ""))
    \/ PlayEnded
    \/ PlayResolved /\ UNCHANGED <<genVars, radioVars>>
    \/ PlayTrackCatch /\ UNCHANGED <<genVars, radioVars>>

OfflineInit == AudioStart /\ GenStart /\ RadioStart /\ jobLimit = MaxId

SpecOffline == OfflineInit /\ [][OfflineNext]_vars

\* The socket against a server that stays reachable in the end: the timer
\* fires and the connect completes unless the socket closes first.
SpecReconnect ==
    /\ SocketInit /\ [][SocketNext]_vars
    /\ WF_vars(WsReconnect) /\ WF_vars(WsOpen)

\* The RadioSocket of a hook that is unmounted at some point: close() is
\* called in any state of the socket.
ShutdownNext ==
    \/ WsOpen
    \/ OnClose(MaxCloses)
    \/ WsReconnect
    \/ SocketClose
    \/ \E f \in BOOLEAN : ServerSends([Msg("playback_state") EXCEPT !.volume = 50, !.flag = f])
    \/ PlaySync
    \/ OnPlaybackState
    \/ PlayStart
    \/ Command(Cmd("skip", ""))

ShutdownInit == AudioStart /\ GenStart /\ RadioStart /\ jobLimit = MaxId

SpecShutdown == ShutdownInit /\ [][ShutdownNext]_vars

\* The AudioManager under any caller, with the hook's onEnded callback on a
\* socket that opens.
EndedNext ==
    \/ WsOpen
    \/ ServerTakes
    \/ PlayEnded
    \/ /\ \/ \E url \in Urls : PlayTrack(url)
          \/ PlayResolved
          \/ PlayRejected
          \/ ErrorEvent
          \/ PlayTrackCatch
          \/ \E url \in Urls : SetNextTrack(url)
          \/ Pause
          \/ Resume
          \/ \E url \in Urls : CrossfadeTo(url)
          \/ \E i \in 1..Len(xf) : CrossfadeStarted(i)
          \/ \E i \in 1..Len(xf) : CrossfadeFailed(i)
          \/ \E i \in 1..Len(xf) : CrossfadeNextError(i)
          \/ \E i \in 1..Len(xf) : CrossfadeDone(i)
       /\ UNCHANGED <<genVars, radioVars>>

EndedInit == AudioStart /\ GenStart /\ RadioStart /\ jobLimit = MaxId

SpecEnded == EndedInit /\ [][EndedNext]_vars

\* The hook against any server: what its handlers write to RadioState.
DisplayNext ==
    \/ WsOpen
    \/ \E m \in ClientEvents : ServerSends(m)
    \/ ServerTakes
    \/ OnSync
    \/ OnNowPlaying
    \/ OnPlaybackState
    \/ OnTick
    \/ OnThinking
    \/ OnGenerationStart
    \/ OnGenerationDone
    \/ OnRegenerating
    \/ OnError
    \/ OnRadioSwitched
    \/ OnReactionFeedback
    \/ OnWaiting
    \/ Start
    \/ \E t \in LocalTimes : TimeUpdate(t)
    \/ ClickSkip

DisplayInit == AudioStart /\ GenStart /\ RadioStart /\ jobLimit = MaxId

SpecDisplay == DisplayInit /\ [][DisplayNext]_vars

\* The hook with its AudioManager against any server.
ClientNext ==
    \/ WsOpen
    \/ \E m \in PlayEvents : ServerSends(m)
    \/ ServerTakes
    \/ PlaySync
    \/ PlayNowPlaying
    \/ OnPlaybackState
    \/ PlayStart
    \/ TogglePause
    \/ PlayEnded
    \/ AudioError
    \/ PlayResolved /\ UNCHANGED <<genVars, radioVars>>
    \/ PlayRejected /\ UNCHANGED <<genVars, radioVars>>
    \/ ErrorEvent /\ UNCHANGED <<genVars, radioVars>>
    \/ PlayTrackCatch /\ UNCHANGED <<genVars, radioVars>>
    \/ \E i \in 1..Len(xf) : CrossfadeStarted(i) /\ UNCHANGED <<genVars, radioVars>>
    \/ \E i \in 1..Len(xf) : CrossfadeFailed(i) /\ UNCHANGED <<genVars, radioVars>>
    \/ \E i \in 1..Len(xf) : CrossfadeNextError(i) /\ UNCHANGED <<genVars, radioVars>>
    \/ \E i \in 1..Len(xf) : CrossfadeDone(i) /\ UNCHANGED <<genVars, radioVars>>

ClientInit == AudioStart /\ GenStart /\ RadioStart /\ jobLimit = MaxId

SpecClient == ClientInit /\ [][ClientNext]_vars

Settled == audio.st # "loading" /\ pend = <<>> /\ xf = <<>>

\* C1: once some asset has started playing, then, whatever failures of
\* requested assets happen (error events, rejected play() calls), the
\* AudioManager is playing an asset whenever it has settled and the user has
\* not paused: it is never left stopped.  Stated in the claim's favour: only
\* runs count in which no asset that once played has ever failed, so that
\* every entry of the fallback list is still playable.
C1_NeverStopped ==
    (okUrls # {} /\ okUrls \cap badUrls = {} /\ ~userPaused /\ Settled)
        => audio.st = "playing"

\* Every inference attempt of the call failed parsing or validation.
Exhausted == \A i \in 1..MaxAttempts : ~ResponseOk(genOut[i])

Handled(types) ==
    /\ toServer # <<>> /\ Head(toServer).type \in types
    /\ toServer' = Tail(toServer)
    /\ ws' = ws

\* The engine handled a skip: the command, or the keyword as free text.
SkipHandled ==
    \/ Handled({"skip"})
    \/ Handled({"reaction"}) /\ Interpret(Head(toServer).text).signal = "skipped"

\* The engine handled a free-text steering instruction.
SteerHandled == Handled({"reaction"}) /\ Interpret(Head(toServer).text).kind = "steer"

\* The hook processed the event at the head of the queue.
Received(type) ==
    /\ toClient # <<>> /\ Head(toClient).type = type
    /\ toClient' = Tail(toClient)
    /\ ws' = ws

\* The step emitted exactly the events evs (to a connected client).
Emitted(evs) == ws = "open" => toClient' = toClient \o evs

C2_AtMostOne == \A s \in StationNames : Len(jobsOf[s]) <= 1

C2_Coalesced ==
    LET s == active IN
    (Stage(s) \in {"thinking", "generating"}
        /\ (Handled({"track_ended"}) \/ SkipHandled \/ SteerHandled)) =>
            /\ Len(jobsOf'[s]) = 1
            /\ SteerHandled => Head(toServer).text \in jobsOf'[s][1].steer
            /\ ~SteerHandled => jobsOf'[s] = jobsOf[s] /\ wantNext'

C3_Step ==
    LET s == active IN
    /\ (Handled({"track_ended"}) /\ Stage(s) = "ready") =>
            /\ nowPlaying' = Job(s).id
            /\ Len(jobsOf'[s]) = 1
            /\ jobsOf'[s][1].stage = "thinking"
            /\ jobsOf'[s][1].id # Job(s).id
            /\ Emitted(<<NowPlayingMsg(Job(s).id), Msg("thinking")>>)
    /\ (Stage(s) = "ready" /\ Job(s).id \notin abandoned'
            /\ (jobsOf'[s] = <<>> \/ jobsOf'[s][1].id # Job(s).id \/
                jobsOf'[s][1].stage # "ready")) =>
            Handled({"track_ended"}) \/ SkipHandled

\* C3: when the engine handles track_ended with the pipeline in ready, in that
\* same step the queued track becomes now-playing, its now_playing event is
\* emitted and a new job starts thinking; and a ready job that is not abandoned
\* leaves ready only in a step that handles track_ended or skip.
C3_TrackEndedReady == [][C3_Step]_vars

\* Track 2 was queued and the client showed it as ready; no skip was ever
\* recorded; its now_playing and the next thinking were just emitted.
C3_Witness ==
    /\ nowPlaying = 2
    /\ ~taste["default"]
    /\ Stage("default") = "thinking"
    /\ state.queueReady
    /\ toClient = <<NowPlayingMsg(2), Msg("thinking")>>

\* The track of job h is announced nowhere: not the engine's current track,
\* not in an event in flight, not shown or played by the client.
NotAnnounced(h) ==
    /\ nowPlaying # h
    /\ \A i \in 1..Len(toClient) :
            toClient[i].type \in {"now_playing", "sync"} => toClient[i].track # h
    /\ state.nowPlaying # h
    /\ nowPlayingRef # h
    /\ played # h

C4_Step ==
    LET s == active
        t == Head(toServer).text
    IN  /\ (SteerHandled /\ Stage(s) \in {"ready", "generating"}) =>
                /\ Job(s).id \in abandoned'
                /\ Len(jobsOf'[s]) = 1
                /\ jobsOf'[s][1].stage = "thinking"
                /\ jobsOf'[s][1].id = nextId
                /\ nextId' = nextId + 1
                /\ t \in jobsOf'[s][1].steer
                /\ Emitted(<<RegeneratingMsg(t)>>)
        /\ Received("regenerating") =>
                /\ ~state'.queueReady
                /\ state'.pipeline.stage = "thinking"
                /\ state'.generationParams = NoLast

\* C4: a steering text handled while the job is ready or generating abandons
\* that job and starts exactly one new job, thinking, with the text in its
\* prompt, and emits regenerating; the track of an abandoned job is never
\* announced; on regenerating the client has queueReady false, stage thinking
\* and no generationParams.
C4_SteerAbandons == [](\A h \in abandoned : NotAnnounced(h)) /\ [][C4_Step]_vars

\* A ready job was abandoned for a steering text, and the client, still in
\* its queued state, is about to process the regenerating event.
C4_Witness ==
    /\ abandoned # {}
    /\ inflight = {}
    /\ state.queueReady
    /\ toClient # <<>>
    /\ Head(toClient).type = "regenerating"

\* The job generating on station s completed: it left generating in a step
\* that took no command and did not fail it.
Completed(s) ==
    /\ Stage(s) = "generating"
    /\ toServer' = toServer
    /\ jobsOf'[s] # jobsOf[s]
    /\ ~(jobsOf'[s] # <<>> /\ jobsOf'[s][1].stage = "error")

C5_Step ==
    LET s == active IN
    /\ (SkipHandled /\ Stage(s) \in {"thinking", "generating"}) =>
            /\ jobsOf' = jobsOf
            /\ nextId' = nextId
            /\ wantNext'
            /\ nowPlaying' = nowPlaying
            /\ played' = played
    /\ Len(toServer') > Len(toServer) => played' = played
    /\ (Completed(s) /\ wantNext) =>
            /\ nowPlaying' = Job(s).id
            /\ Emitted(<<NowPlayingMsg(Job(s).id), Msg("generation_done"), Msg("thinking")>>)
    /\ (Received("now_playing") /\ started) =>
            /\ played' = Head(toClient).track
            /\ state'.nowPlaying = Head(toClient).track

C6_Step ==
    LET s == active IN
    /\ (SkipHandled /\ Stage(s) = "ready") =>
            /\ nowPlaying' = Job(s).id
            /\ Emitted(<<ReactionFeedbackMsg("skipped"), NowPlayingMsg(Job(s).id),
                         Msg("thinking")>>)
    /\ Received("now_playing") =>
            /\ state'.nowPlaying = Head(toClient).track
            /\ nowPlayingRef' = Head(toClient).track
            /\ ~state'.queueReady

\* C6: a skip handled while the job is ready makes the queued track
\* now-playing in that same step, before any other generation completes: the
\* now_playing event emitted is for the queued track, and the client that
\* processes it shows that track and leaves its queued state.
C6_SkipReady == [][C6_Step]_vars

\* Track 2 was queued; the skip's acknowledgement, the now_playing for track 2
\* and the next thinking are in flight.
C6_Witness ==
    /\ nowPlaying = 2
    /\ state.queueReady
    /\ toClient = <<ReactionFeedbackMsg("skipped"), NowPlayingMsg(2), Msg("thinking")>>

C8_Job ==
    \A s \in StationNames :
        Stage(s) \in {"generating", "ready"} =>
            /\ Job(s).malformed <= MaxRetries
            /\ Len(Job(s).warnings) = Job(s).malformed

C8_Step ==
    LET s == active IN
    /\ (Stage(s) = "thinking" /\ jobsOf'[s] # <<>> /\ jobsOf'[s][1].stage = "generating") =>
            /\ Emitted(<<GenerationStartMsg(jobsOf'[s][1])>>)
            /\ Len(GenerationStartMsg(jobsOf'[s][1]).warnings) = jobsOf'[s][1].malformed
    /\ Received("generation_start") =>
            /\ state'.pipeline.stage = "generating"
            /\ state'.pipeline.warnings = Head(toClient).warnings

\* C8: when the inference service answers malformed k times and then validly
\* (k within the retry bound), the job reaches generating with k warnings, the
\* generation_start event emitted carries those k warnings, and the client
\* that processes it has pipeline.warnings equal to the event's list.
C8_Warnings == []C8_Job /\ [][C8_Step]_vars

\* First run of station "default", no notes: two malformed answers, then a
\* valid one; the client shows generating with two warnings.
C8_Witness ==
    /\ nowPlaying = NoTrack
    /\ notes["default"] = <<>>
    /\ Stage("default") = "generating"
    /\ Job("default").id = 1
    /\ Job("default").malformed = 2
    /\ state.pipeline.stage = "generating"
    /\ Len(state.pipeline.warnings) = 2

IsPrefix(a, b) == Len(a) <= Len(b) /\ SubSeq(b, 1, Len(a)) = a

C10_Step ==
    /\ (ws # "open" /\ ws' = "open") =>
            /\ Len(toClient') = 1
            /\ toClient'[1].type = "sync"
            /\ toClient'[1].track = nowPlaying'
            /\ toClient'[1].text = active'
    /\ Received("sync") =>
            /\ state'.nowPlaying = Head(toClient).track
            /\ nowPlayingRef' = Head(toClient).track

\* C10: when the socket opens, the only event in flight is a sync whose
\* now_playing is the engine's current track; while the socket is not open no
\* event is in flight, so nothing emitted meanwhile is delivered later; the
\* client that processes the sync shows the snapshot's now_playing.
C10_Reconnect == [](ws # "open" => toClient = <<>>) /\ [][C10_Step]_vars

\* After a drop the socket is open again and the sync in flight carries a
\* track that the client has not seen.
C10_Witness ==
    /\ drops > 0
    /\ ws = "open"
    /\ toClient # <<>>
    /\ Head(toClient).type = "sync"
    /\ Head(toClient).track # NoTrack
    /\ Head(toClient).track # state.nowPlaying

\* The playTrack call whose catch block runs next.
Catching ==
    CHOOSE k \in 1..Len(pend) :
        /\ pend[k].st = "rejected"
        /\ \A j \in 1..(k - 1) : pend[j].st # "rejected"

C11_Step ==
    /\ \A i \in 1..Len(xf) :
            (xf[i].phase = "starting" /\ xf' = RemoveAt(xf, i)) =>
                /\ audio' = [src |-> xf[i].url, st |-> "loading"]
                /\ pend' # <<>>
                /\ Last(pend') = [url |-> xf[i].url, st |-> "wait", hard |-> TRUE]
    /\ (/\ ~NoMicrotasks
        /\ pend[Catching].hard
        /\ xf = <<>>
        /\ ~userPaused
        /\ okUrls # {}
        /\ okUrls \cap badUrls = {}) =>
                /\ audio'.st \in {"loading", "playing"}
                /\ audio'.src \in okUrls
                /\ fallbackQueue # <<>> => audio'.src = Last(fallbackQueue)

\* C11: when the incoming asset's play() fails in crossfadeTo, the step is a
\* hard switch, playTrack on the incoming URL; when that playTrack fails as
\* well, then after its catch block an asset that played before is playing
\* or starting (the most recent fallback entry when the list has one): the
\* failed incoming asset does not end with no asset playing.  Stated in the
\* claim's favour: only states count in which some asset has started playing,
\* no asset that once played has ever failed, no other crossfade is running
\* and the user has not paused.
C11_CrossfadeFallback == [][C11_Step]_vars

C12_Bounded ==
    /\ Len(fallbackQueue) <= FallbackMax
    /\ \A i \in 1..Len(fallbackQueue) : fallbackQueue[i] \in okUrls

C12_Evict ==
    (Len(fallbackQueue) = FallbackMax /\ fallbackQueue' \notin {fallbackQueue, Front(fallbackQueue)})
        => \E url \in okUrls' : fallbackQueue' = Append(Tail(fallbackQueue), url)

\* C12: the fallback list never holds more than 10 entries, every entry is
\* an asset whose playback has started, and a step that adds to a full list
\* drops its oldest entry and keeps the others in order.
C12_FallbackList == []C12_Bounded /\ [][C12_Evict]_vars

\* The list is full and its oldest entry, the "b" it started with, has been
\* evicted: the new "b" is last and the entries between them are kept.
C12_Witness ==
    /\ Len(fallbackQueue) = FallbackMax
    /\ \A i \in 1..(FallbackMax - 1) : fallbackQueue[i] = "a"
    /\ Last(fallbackQueue) = "b"
    /\ audio = [src |-> "b", st |-> "playing"]

\* The client processes an event: it is taken from the channel.
Processed == toClient # <<>> /\ toClient' = Tail(toClient) /\ ws' = ws

C13_Step ==
    /\ Received("tick") => state' = state
    /\ (state'.elapsed # state.elapsed \/ state'.duration # state.duration) =>
            /\ ~Processed
            /\ played # NoTrack
            /\ [elapsed |-> state'.elapsed, duration |-> state'.duration] \in LocalTimes

\* C13: processing a tick leaves every field of RadioState as it was, and a
\* step that changes the displayed elapsed or duration processes no server
\* event: it is a time update of the local audio element.
C13_TickAdvisory == [][C13_Step]_vars

\* The display shows the local position 3 of 9 and a tick reporting the
\* server's position 5 has been processed.
C13_Witness ==
    /\ serverElapsedRef = 5
    /\ state.elapsed = 3
    /\ state.duration = 9
    /\ toClient = <<>>

C14_Step ==
    /\ Processed => state'.isPlaying = state.isPlaying
    /\ Received("playback_state") =>
            state' = [state EXCEPT !.volume = IF Head(toClient).volume = NoVolume
                                              THEN @ ELSE Head(toClient).volume]

\* C14: no server event, whatever its type, changes RadioState.isPlaying when
\* the client processes it, and processing playback_state changes the volume
\* and nothing else.
C14_NoServerPlayState == [][C14_Step]_vars

\* A playback_state event (volume 50) has been processed on the started
\* client that shows track 1.
C14_Witness ==
    /\ started
    /\ state.nowPlaying = 1
    /\ state.volume = 50
    /\ toClient = <<>>

\* C15: whenever the AudioManager has settled, RadioState.isPlaying is true
\* exactly when the audio element is playing.
C15_IsPlaying == Settled => (state.isPlaying <=> audio.st = "playing")

\* handleSubmit ran: the input box held a text and has been emptied.
Submitted == inputText # "" /\ inputText' = ""

C16_Step ==
    /\ Submitted => toServer' = Append(toServer, Cmd("reaction", inputText))
    /\ SteerHandled =>
            \/ Head(toServer).text \in pendingSteer'
            \/ /\ jobsOf'[active] # <<>>
               /\ jobsOf'[active][1].stage \in {"waiting", "thinking", "error"}
               /\ Head(toServer).text \in jobsOf'[active][1].steer

\* C16: every text the user submits is put on the channel verbatim as a
\* reaction command, whatever the state of the socket and of the pipeline,
\* and every steering text the engine handles is, after the step, in the
\* prompt of the job that is about to think or among the texts kept for the
\* next prompt.
C16_TextForwarded == [][C16_Step]_vars

C17_Step ==
    /\ \A s \in StationNames :
            Stage(s) # "error" => ~(jobsOf'[s] # <<>> /\ jobsOf'[s][1].stage = "error")
    /\ Handled({"skip"}) =>
            /\ taste' = taste
            /\ jobsOf' = jobsOf
            /\ nowPlaying' = nowPlaying
            /\ wantNext' = wantNext

\* C17: with a listener who issues no command, so that every skip on the
\* channel is the one the client sends after an asset failure: no step puts
\* a pipeline into error, and the engine's handling of such a skip changes
\* neither the taste profile nor the current job nor the now-playing track.
C17_FailureLocal == [][C17_Step]_vars

\* The synthesis of an abandoned job completed in this step.
SynthesisCompleted(h) == h \in inflight /\ h \notin inflight'

C18_Step ==
    \A h \in 1..MaxId : SynthesisCompleted(h) => UNCHANGED <<jobsOf, nowPlaying, toClient, state, played, seekTo>>

C18_Discarded ==
    \A h \in abandoned :
        /\ nowPlaying # h
        /\ \A s \in StationNames : \A i \in 1..Len(jobsOf[s]) : jobsOf[s][i].id # h
        /\ \A i \in 1..Len(toClient) : toClient[i].track # h
        /\ state.nowPlaying # h

C18_Shown ==
    (state.queueReady /\ toClient = <<>>) =>
        Stage(active) = "ready" /\ Job(active).id \notin abandoned

\* C18: the completion of the synthesis of an abandoned job changes no
\* station's jobs, no now-playing track and emits no event; an abandoned job
\* is never the now-playing track or a job of any station, and is never
\* announced to or shown by the client; and whenever the client, having
\* handled every event, shows a queued track, the active station holds a
\* ready job that was not abandoned.
C18_AbandonedDiscarded == [](C18_Discarded /\ C18_Shown) /\ [][C18_Step]_vars

\* The only job so far was generating when the station was switched, and its
\* synthesis has completed since; the client has handled radio_switched.
C18_Witness ==
    /\ active = "alt"
    /\ abandoned = {1}
    /\ inflight = {}
    /\ nextId = 2
    /\ state.radioName = "alt"
    /\ ~state.queueReady
    /\ toClient = <<>>

C19_Step ==
    /\ (Stage(active) = "error" /\ Stage(active)' = "thinking") => toServer' = toServer
    /\ Received("thinking") =>
            /\ state'.pipeline.stage = "thinking"
            /\ state'.pipeline.lastError = NoError
            /\ state'.pipeline.warnings = <<>>

\* C19: with a listener who issues no command, a pipeline in error is
\* eventually in thinking again, by a step that handles no command; and the
\* client's handling of a thinking event leaves stage thinking, lastError
\* null and no warnings, whatever it showed before.
C19_AutoRecover ==
    /\ (Stage(active) = "error") ~> (Stage(active) = "thinking")
    /\ [](toServer = <<>>)
    /\ [][C19_Step]_vars

\* The engine has re-attempted, and the thinking event is the next the client
\* handles while it still shows the error.
C19_Witness ==
    /\ Stage(active) = "thinking"
    /\ state.pipeline.stage = "error"
    /\ state.pipeline.lastError = ErrorMsg.text
    /\ toClient # <<>> /\ Head(toClient).type = "thinking"

\* The stage goes from a to b along an edge the pipeline has, or stays.
Along(a, b) ==
    /\ (b = "error" /\ a # "error") => a \in {"waiting", "thinking", "generating"}
    /\ (b = "ready" /\ a # "ready") => a = "generating"
    /\ (b = "generating" /\ a # "generating") => a = "thinking"

C20_Engine == \A s \in StationNames : Along(Stage(s), Stage(s)')

C20_Client == Along(state.pipeline.stage, state'.pipeline.stage)

\* C20: in every step, the stage of each station's job in the engine and the
\* stage the client shows (pipeline.stage) enter error only from waiting,
\* thinking or generating, enter ready only from generating, and enter
\* generating only from thinking.
C20_StageEdges == [][C20_Engine /\ C20_Client]_vars

\* Track h is the audible track on the client.
Audible(h) == played = h /\ audio = [src |-> UrlOf(h), st |-> "playing"]

\* The sync events still to come: one for each drop left, and one when the
\* socket is not open or its sync is still in flight.
SyncsLeft ==
    (MaxDrops - drops)
        + (IF ws = "open" /\ \A i \in 1..Len(toClient) : toClient[i].type # "sync" THEN 0 ELSE 1)

\* The listener has started the radio, the client's element holds the current
\* track g, playing or restarting after an end, and the station holds the
\* generated track h ready; the calls left in the run suffice for the syncs
\* to come and one now_playing.
QueuedBehind(g, h) ==
    /\ started
    /\ nowPlaying = g
    /\ played = g
    /\ audio.src = UrlOf(g)
    /\ audio.st \in {"playing", "loading"}
    /\ Stage(active) = "ready"
    /\ QueuedTrack(active) = h
    /\ nextId <= jobLimit
    /\ ncalls + SyncsLeft + 1 <= MaxCalls

EndOfTrack ==
    /\ audio.st = "playing" /\ audio'.st = "loading"
    /\ ncalls' = ncalls /\ xf' = xf /\ fallbackQueue' = fallbackQueue

C22_Step ==
    /\ EndOfTrack =>
            /\ audio'.src = (IF nextTrackUrl # NoUrl THEN nextTrackUrl ELSE audio.src)
            /\ nextTrackUrl' = NoUrl
            /\ toServer' = Send(Cmd("track_ended", ""))
    /\ (audio.st = "playing" /\ audio'.st \notin {"playing", "loading"}) =>
            userPaused' \/ audio'.st = "failed" \/ xf' # xf

\* C22: when the track of the playing element reaches its end, the element
\* starts the same asset again if no next-track URL is set and the next-track
\* URL if one is set, the next-track URL is cleared, and onEnded reports the
\* end (track_ended goes out on an open socket); and a playing element stops
\* being played only by a pause, a failure or a crossfade step, never by an
\* end.
C22_EndLoops == [][C22_Step]_vars

\* The only call was one playTrack; its track has ended, restarts, and the
\* end has been reported.
C22_Witness ==
    /\ audio = [src |-> "a", st |-> "loading"]
    /\ pend = <<>>
    /\ ncalls = 1
    /\ nextTrackUrl = NoUrl
    /\ toServer = <<Cmd("track_ended", "")>>

\* The client sends track_ended in this step.
SendsTrackEnded == toServer' = Append(toServer, Cmd("track_ended", ""))

\* The engine has handled a track_ended for the track the client plays, and
\* has announced no track since.
EndReported == wantNext /\ nowPlaying = played /\ state.nowPlaying = played

\* C23: the client sends no track_ended for the track it plays once the
\* engine has handled one for that track and has not announced the next.
C23_EndedOnce == [][SendsTrackEnded => ~EndReported]_vars

C24_Step ==
    /\ Received("generation_done") =>
            LET queued == ~nowPlayingAfterGenStart IN
            /\ state'.generating = FALSE
            /\ state'.queueReady = queued
            /\ state'.pipeline.stage = (IF queued THEN "ready" ELSE "idle")
            /\ state'.generationParams = (IF queued THEN state.generationParams ELSE NoLast)
    /\ nowPlayingAfterGenStart' =
            IF Received("now_playing") THEN TRUE
            ELSE IF \E type \in {"generation_start", "regenerating", "radio_switched"} :
                        Received(type)
                 THEN FALSE
                 ELSE nowPlayingAfterGenStart

\* C24: nowPlayingAfterGenStart is true exactly when a now_playing has been
\* handled since the latest generation_start, regenerating or radio_switched
\* (it is set by now_playing, cleared by these three, and written by nothing
\* else); and on generation_done the client sets generating false and, when
\* it is false, queueReady true and stage ready, keeping generationParams,
\* and otherwise queueReady false and stage idle, clearing generationParams.
C24_QueuedOrPlaying == [][C24_Step]_vars

\* A track was announced, then a generation started and finished with no
\* now_playing in between: the client shows the queued track with its
\* parameters.
C24_Witness ==
    /\ state.nowPlaying = 1
    /\ ~nowPlayingAfterGenStart
    /\ ~state.generating
    /\ state.queueReady
    /\ state.pipeline.stage = "ready"
    /\ state.generationParams = [has |-> TRUE, p |-> GoodResponse.p]

\* C25: in every state of the client, queueReady is true exactly when
\* pipeline.stage is ready.
C25_QueueReadyIsReady == state.queueReady <=> state.pipeline.stage = "ready"

\* Nothing has been asked of the AudioManager.
Untouched ==
    audioVars = <<[src |-> NoUrl, st |-> "empty"], <<>>, NoUrl, <<>>, <<>>, {}, {}, FALSE, 0,
                  DefaultVolume, ElementVolume, <<>>>>

C26_Step ==
    /\ (~started /\ Received("sync")) =>
            /\ nowPlayingRef' = Head(toClient).track
            /\ serverElapsedRef' = Head(toClient).elapsed
            /\ UNCHANGED audioVars
    /\ (~started /\ Received("now_playing")) =>
            /\ nowPlayingRef' = Head(toClient).track
            /\ UNCHANGED audioVars
    /\ (~started /\ started') =>
            IF nowPlayingRef # NoTrack
            THEN audio' = [src |-> UrlOf(nowPlayingRef), st |-> "loading"]
            ELSE UNCHANGED audioVars

\* C26: until start() has run, the AudioManager has not been asked anything:
\* a sync or now_playing handled before it records the announced track (and
\* sync the server's elapsed position) and leaves the AudioManager alone;
\* start() plays the recorded track if there is one.
C26_NoPlayBeforeStart == [](~started => Untouched) /\ [][C26_Step]_vars

\* A sync announcing track 1 at position 4 has been handled before start().
C26_Witness ==
    /\ ~started
    /\ nowPlayingRef = 1
    /\ serverElapsedRef = 4
    /\ state.nowPlaying = 1
    /\ toClient = <<>>
    /\ Untouched

\* C27: once the radio is started and every play request and crossfade has
\* completed, with no asset having failed and no pause, the element plays
\* the track of the most recently handled sync or now_playing.
C27_LatestPlays ==
    (started /\ Settled /\ ~userPaused /\ badUrls = {} /\ toClient = <<>>
        /\ nowPlayingRef # NoTrack /\ played = nowPlayingRef)
        => audio = [src |-> UrlOf(nowPlayingRef), st |-> "playing"]

\* C28: while pause() is the last transport call the user made and no asset
\* has failed, the AudioManager's element is not playing.
C28_PausedStaysPaused == (userPaused /\ badUrls = {}) => audio.st # "playing"

\* C29: whenever no crossfadeTo call is running and the element has a source,
\* the element's volume is the AudioManager's volume setting.
C29_VolumeKept == (xf = <<>> /\ audio.src # NoUrl) => elVolume = _volume

\* C30: the reconnect delay, and the delay of every reconnect timer, is between
\* 1000 and 10000 ms; an open sets the delay to 1000, so the first retry after
\* an open waits 1000; a close sets the timer with the current delay and then
\* doubles the delay, up to 10000.
C30_Step ==
    /\ (ws # "open" /\ ws' = "open") => reconnectDelay' = 1000
    /\ (ws # "retry" /\ ws' = "retry") =>
            /\ timer' = reconnectDelay
            /\ ws = "open" => timer' = 1000
            /\ reconnectDelay' = (IF reconnectDelay >= 5000 THEN 10000 ELSE 2 * reconnectDelay)

C30_ReconnectDelay ==
    /\ [](reconnectDelay \in 1000..10000 /\ (timer # NoTimer => timer \in 1000..10000))
    /\ [][C30_Step]_vars

\* The fifth failed connect in a row: its timer waits the capped delay.
C30_Witness == ws = "retry" /\ drops = 5 /\ timer = 10000 /\ reconnectDelay = 10000 /\ ~state.connected

C31_Step ==
    closed =>
        /\ closed'
        /\ ws' = "connecting" => ws = "connecting"
        /\ timer' \in {timer, NoTimer}
        /\ reconnectDelay' = reconnectDelay

\* C31: once close() has been called the closed flag stays set, no new
\* WebSocket is created (the socket never enters "connecting", also when the
\* reconnect timer that was pending fires), and no reconnect timer is set:
\* the close event that follows leaves the timer and the delay alone; a socket
\* that close() found connecting never opens.
C31_ClosedStaysClosed ==
    /\ [](closed => ws \in {"closing", "closed", "retry"})
    /\ [][C31_Step]_vars

\* close() came while a reconnect timer was pending; the timer has fired and
\* connect() returned without a socket.
C31_Witness == closed /\ ws = "closed" /\ drops = 1 /\ timer = NoTimer /\ reconnectDelay = 2000

C32_Step ==
    (ws \in {"connecting", "open"} /\ ws' \notin {"connecting", "open"} /\ ~closed) =>
        /\ ws' = "retry"
        /\ timer' # NoTimer
        /\ ~state'.connected

\* C32: a close or error of the socket without close() sets the reconnect
\* timer; connected is true exactly while the socket is open; and with a
\* server that stays reachable in the end the socket is open and connected
\* again after every close.
C32_Reconnects ==
    /\ [](state.connected <=> ws = "open")
    /\ [][C32_Step]_vars
    /\ (ws # "open") ~> (ws = "open" /\ state.connected)

\* Connected again after two closes, the delay back at 1000.
C32_Witness == ws = "open" /\ state.connected /\ drops = 2 /\ reconnectDelay = 1000 /\ timer = NoTimer

\* pause() of a playing track is at hand while the socket is not open, with
\* its local effect and nothing sent.
PauseOffline ==
    (started /\ NoMicrotasks /\ audio.st = "playing") =>
        ENABLED (TogglePause /\ audio'.st = "paused" /\ userPaused' /\ toServer' = <<>>)

\* The same for setting the volume.
VolumeOffline ==
    NoMicrotasks =>
        \A v \in Volumes \ {_volume} :
            ENABLED (UserSetVolume(v) /\ _volume' = v /\ elVolume' = v /\ toServer' = <<>>)

\* C33: while the socket is not open no command is in flight and no step puts
\* one in flight, so none is delivered once the socket is open again (the
\* open itself delivers none); pause and the volume setting still take
\* effect on the AudioManager.
C33_OfflineDiscarded ==
    /\ [](ws # "open" => toServer = <<>> /\ PauseOffline /\ VolumeOffline)
    /\ [][ws # "open" => toServer' = <<>>]_vars

\* The listener paused the playing track and lowered the volume while the
\* reconnect timer was pending; nothing is in flight.
C33_Witness ==
    /\ ws = "retry" /\ toServer = <<>>
    /\ userPaused /\ audio.st = "paused"
    /\ _volume = 30 /\ elVolume = 30 /\ state.volume = 30

\* The fields radio_switched resets, at their reset values.
SwitchedView(st) ==
    /\ st.nowPlaying = NoTrack
    /\ ~st.generating
    /\ ~st.queueReady
    /\ st.generationParams = NoLast
    /\ st.pipeline = IdlePipeline

\* The station the client shows once it has handled the events in flight.
LastSwitch ==
    LET sw == {i \in 1..Len(toClient) : toClient[i].type = "radio_switched"}
    IN  IF sw = {} THEN state.radioName
        ELSE toClient[CHOOSE i \in sw : \A j \in sw : j <= i].text

\* The events a step of the engine emitted report on the active station: an
\* announced track is the track of its job and the now-playing track, the
\* parameters of a generation_start are those of its job.
EmittedForActive ==
    (~Processed /\ Len(toClient') > Len(toClient)) =>
        \A i \in (Len(toClient) + 1)..Len(toClient') :
            LET e == toClient'[i] IN
            /\ e.type = "now_playing" =>
                    /\ active' = active
                    /\ nowPlaying' = e.track
                    /\ jobsOf[active] # <<>> /\ Job(active).id = e.track
            /\ e.type = "generation_start" =>
                    /\ active' = active
                    /\ Stage(active)' = "generating"
                    /\ e.params = Job(active)'.params
            /\ e.type = "radio_switched" => e.text = active'

C34_Step ==
    /\ Received("radio_switched") =>
            /\ SwitchedView(state')
            /\ state'.radioName = Head(toClient).text
    /\ (SwitchedView(state) /\ ~SwitchedView(state')) =>
            /\ Processed
            /\ Head(toClient).type # "radio_switched"
    /\ EmittedForActive

\* C34: processing radio_switched leaves nowPlaying null, generating and
\* queueReady false, generationParams null and the pipeline idle without
\* warnings or lastError; these fields leave their reset values only when the
\* client processes a later event; and the events arrive in the order sent,
\* each reporting on the station that was active when the engine sent it, the
\* last radio_switched naming the active station.
C34_SwitchResets == [](ws = "open" => LastSwitch = active) /\ [][C34_Step]_vars

\* The client showed track 1 of the first station as playing and a queued
\* track; it has processed radio_switched for the other station.
C34_Witness ==
    /\ active = "alt" /\ state.radioName = "alt"
    /\ SwitchedView(state)
    /\ nowPlayingRef = 1
    /\ Stage("default") = "ready"
    /\ toClient = <<>>

C35_Step ==
    (Received("sync") /\ drops > 0 /\ ~Head(toClient).flag) =>
        state'.pipeline.stage \notin {"waiting", "thinking", "generating"}

\* C35: when the client processes the snapshot that follows a reconnect and
\* the snapshot reports generating = false, the pipeline stage it shows
\* afterwards is not waiting, thinking or generating.
C35_SnapshotAgrees == [][C35_Step]_vars

\* The track and the position the server reported last: every sync and
\* now_playing replaces the track, every sync and tick the position, and no
\* other step touches either.
LatestKept ==
    /\ nowPlayingRef' = IF Received("sync") \/ Received("now_playing")
                        THEN Head(toClient).track ELSE nowPlayingRef
    /\ serverElapsedRef' = IF Received("sync") \/ Received("tick")
                           THEN Head(toClient).elapsed ELSE serverElapsedRef

\* The step in which start() runs.
StartRuns == ~started /\ started'

C36_Step ==
    /\ LatestKept
    /\ StartRuns =>
            IF nowPlayingRef # NoTrack
            THEN played' = nowPlayingRef /\ seekTo' = serverElapsedRef
            ELSE UNCHANGED <<played, seekTo, audioVars, state, toServer, toClient>>

\* C36: start() hands the AudioManager the track of the last sync or
\* now_playing received before it, at the position of the last sync or tick
\* received before it, never a track announced earlier; when no track has
\* been announced it hands over nothing and only sets started.
C36_StartPlaysLatest == [][C36_Step]_vars

\* A sync announced track 1 at position 4, a now_playing then announced
\* track 2, a tick reported position 5, and start() ran after them.
C36_Witness ==
    /\ started
    /\ played = 2 /\ seekTo = 5
    /\ nowPlayingRef = 2 /\ serverElapsedRef = 5
    /\ state.nowPlaying = 2 /\ state.radioName = "default" /\ state.volume = 60
    /\ toClient = <<>>

====
